---- MODULE Spec2Model ----
(***************************************************************************)
(* Model of the F1 analytics core: the pit-stop strategy optimizer         *)
(* (strategy_optimizer.py) and the race outcome predictor                  *)
(* (race_predictor.py).                                                    *)
(*                                                                         *)
(* Times are exact decimals held as integers in hundredths of a second     *)
(* (25.0 s = 2500, a degradation rate of 0.05 s/lap = 5).                  *)
(***************************************************************************)
EXTENDS Integers, Sequences, FiniteSets, TLC

VARIABLES
    opc,              \* position inside optimize_pit_strategy
    round_num,        \* argument round_num of the running call
    round_hashable,   \* FALSE when round_num is a value dict.get cannot hash (a JSON list/object)
    session,          \* what the race-session data source holds for the call
    total_laps,       \* local total_laps
    base_lap_time,    \* local base_lap_time (hundredths)
    actual_strategy,  \* local actual_strategy
    loop_k,           \* index of the current iteration of the running nested compound loop
    n_strategies,     \* len(strategies)
    best,             \* first minimum-time element of strategies so far: min(strategies, key=time)
    cand,             \* the element appended to strategies by the last iteration
    response,         \* the value returned by optimize_pit_strategy
    ppc,              \* position inside predict_race_outcome
    p_round,          \* argument round_num of the running predict_race_outcome call
    models,           \* the four regressors and the scaler of the predictor
    outcome,          \* how the predict_race_outcome call ended: its result, or an exception
    threads,          \* the request threads of the server inside predict_race_outcome
    train_runs,       \* how many times train_models was called
    train_failures,   \* how many of these calls returned False
    gpc,              \* position inside an explicit train_models call
    g_iter,           \* iterations done of the running loop of _generate_training_data
    g_limit,          \* its number of iterations, fixed when the loop starts
    n_rows,           \* len(X)
    fit_rows,         \* the number of samples the regressors were fitted on, -1 for none
    train_ok,         \* what train_models returned
    fpc,              \* position of a build_feature_matrix call
    fm_drivers,       \* its argument drivers
    fm_round,         \* its argument round_num
    fm_result,        \* what it returned
    hist_calls,       \* the get_historical_performance calls made, with their results
    spc,              \* where the seeded caller of predict_race_outcome stands
    rng_stream,       \* the draws np.random gives from the last seeding on
    rng_pos,          \* the next draw of rng_stream
    seeded_models,    \* the regressors and the scaler of the seeded caller's predictor
    seeded_calls,     \* the seeded calls that returned: the seed's stream and the result
    fit_input,        \* for each regressor, the representation of the X it was fitted on
    predict_input,    \* for each regressor, the representation last handed to predict
    sample_race,      \* the rows one primary iteration of _generate_training_data appended
    candidate         \* the strategy dict one loop iteration of _generate_optimal_strategy built

ovars == <<opc, round_num, round_hashable, session, total_laps, base_lap_time, actual_strategy,
           loop_k, n_strategies, best, cand, response>>

pvars == <<ppc, p_round, models, outcome>>

cvars == <<threads, train_runs, train_failures>>

tvars == <<gpc, g_iter, g_limit, n_rows, fit_rows, train_ok>>

fvars == <<fpc, fm_drivers, fm_round, fm_result>>

hvars == <<hist_calls>>

svars == <<spc, rng_stream, rng_pos, seeded_models, seeded_calls, fit_input, predict_input>>

rvars == <<sample_race>>

gvars == <<candidate>>

xvars == <<hvars, svars, rvars, gvars>>

vars == <<ovars, pvars, cvars, tvars, fvars, xvars>>

-----------------------------------------------------------------------------
(* Bounds of the model *)

\* rounds 1..24 are the calendar; larger round numbers are unknown to every table
MaxRound == 25

Rounds == 1..MaxRound

-----------------------------------------------------------------------------
(* Generic helpers *)

Max(a, b) == IF a >= b THEN a ELSE b

Min(a, b) == IF a <= b THEN a ELSE b

RECURSIVE SumSeq(_)
SumSeq(s) == IF s = <<>> THEN 0 ELSE Head(s) + SumSeq(Tail(s))

-----------------------------------------------------------------------------
(* StrategyOptimizer.__init__ *)

tire_performance ==
    [c \in {"SOFT", "MEDIUM", "HARD", "INTERMEDIATE", "WET"} |->
        CASE c = "SOFT"         -> [pace_advantage |-> -80, degradation_rate |-> 5,  max_stint |-> 20]
          [] c = "MEDIUM"       -> [pace_advantage |-> 0,   degradation_rate |-> 3,  max_stint |-> 30]
          [] c = "HARD"         -> [pace_advantage |-> 60,  degradation_rate |-> 2,  max_stint |-> 40]
          [] c = "INTERMEDIATE" -> [pace_advantage |-> 200, degradation_rate |-> 8,  max_stint |-> 25]
          [] c = "WET"          -> [pace_advantage |-> 500, degradation_rate |-> 10, max_stint |-> 20]]

pit_stop_time == 2500

StreetRounds == {1, 5, 6, 8, 17, 18, 22}

track_types(r) ==
    IF r \in 1..24 THEN (IF r \in StreetRounds THEN "street" ELSE "permanent")
    ELSE "permanent"

-----------------------------------------------------------------------------
(* _estimate_lap_time, _estimate_race_length *)

lap_times == <<85, 95, 90, 95, 92, 88, 82, 75, 80, 75, 70, 90,
               110, 80, 75, 85, 105, 100, 95, 80, 75, 95, 85, 95>>

DefaultLapTime == 90

_estimate_lap_time(r) ==
    100 * (IF r \in DOMAIN lap_times THEN lap_times[r] ELSE DefaultLapTime)

race_lengths == <<58, 56, 53, 57, 50, 57, 63, 78, 66, 70, 71, 52,
                  44, 70, 72, 53, 51, 61, 56, 71, 71, 50, 57, 58>>

DefaultRaceLength == 60

_estimate_race_length(r) ==
    IF r \in DOMAIN race_lengths THEN race_lengths[r] ELSE DefaultRaceLength

\* both branches of the track_type test build the same list
Compounds(track_type) ==
    IF track_type = "street" THEN <<"SOFT", "MEDIUM", "HARD">>
    ELSE <<"SOFT", "MEDIUM", "HARD">>

-----------------------------------------------------------------------------
(* _calculate_strategy_time *)

\* StintLoop with the lap index counted from 1
RECURSIVE StintLoopFromOne(_, _, _, _)
StintLoopFromOne(base_stint_time, rate, lap, laps) ==
    IF lap >= laps THEN 0
    ELSE (base_stint_time + rate * (lap + 1))
         + StintLoopFromOne(base_stint_time, rate, lap + 1, laps)

\* the inner loop: for lap in range(laps), started at lap index `lap`
RECURSIVE StintLoop(_, _, _, _)
StintLoop(base_stint_time, rate, lap, laps) ==
    IF lap >= laps THEN 0
    ELSE (base_stint_time + rate * lap) + StintLoop(base_stint_time, rate, lap + 1, laps)

\* the base lap times and stint lengths a call can meet
BaseLapTimes == {_estimate_lap_time(r) : r \in Rounds}

MaxStintLaps == 80

\* StintLoop for every stint a call can meet, evaluated once: a table of the loop's
\* results, so that a state's successors are not recomputed lap by lap
StintLoopTable ==
    [b \in BaseLapTimes |->
        [c \in DOMAIN tire_performance |->
            [n \in 0..MaxStintLaps |->
                StintLoop(b + tire_performance[c].pace_advantage,
                          tire_performance[c].degradation_rate, 0, n)]]]

StintTime(stint, base) ==
    LET known == stint.compound \in DOMAIN tire_performance
        tire_data == IF known THEN tire_performance[stint.compound]
                     ELSE tire_performance["MEDIUM"]
    IN  IF known /\ base \in BaseLapTimes /\ stint.laps \in 0..MaxStintLaps
        THEN StintLoopTable[base][stint.compound][stint.laps]
        ELSE StintLoop(base + tire_data.pace_advantage, tire_data.degradation_rate,
                       0, stint.laps)

_calculate_strategy_time(strategy, base) ==
    SumSeq([i \in DOMAIN strategy.stints |-> StintTime(strategy.stints[i], base)])
        + strategy.stops * pit_stop_time

-----------------------------------------------------------------------------
(* The race-session data source (fastf1), as _get_actual_strategy_data sees it *)

\* a missing Compound (NaN), a missing LapTime (NaT), current_compound = None
NaN == "NaN"

NaT == -1

None == "None"

Lap(n, c, t) == [LapNumber |-> n, Compound |-> c, LapTime |-> t]

\* a complete 58-lap race, one stop on lap 30
FullLog == [n \in 1..58 |-> Lap(n, IF n < 30 THEN "MEDIUM" ELSE "HARD", 8550)]

\* a log cut short after three laps, one LapTime missing
ShortLog == <<Lap(1, "SOFT", 9000), Lap(2, NaN, NaT), Lap(3, "MEDIUM", 9100)>>

\* a log whose lap times are all missing
NaTLog == <<Lap(1, "SOFT", NaT), Lap(2, "SOFT", NaT)>>

\* the driver_laps frames the session may hold for a driver (<<>>: no laps)
LapLogs == {<< >>, ShortLog, NaTLog, FullLog}

\* what the telemetry source holds: a session that fails to load, or a frame of laps
Unavailable == [loads |-> FALSE, driver_laps |-> << >>]

Telemetry == {Unavailable} \cup [loads : {TRUE}, driver_laps : LapLogs]

\* the rounds whose calls are explored with every telemetry answer; the other rounds
\* are explored with an unavailable session
TelemetryRounds == {1, 13, MaxRound}

Calls == (Rounds \X {Unavailable}) \cup (TelemetryRounds \X Telemetry)

\* one iteration of for _, lap in driver_laps.iterrows(), on the locals st
ScanLap(lap, st) ==
    LET changes == lap.Compound # NaN /\ lap.Compound # st.current_compound
        stint_length == lap.LapNumber - st.current_stint_start
        closes == changes /\ st.current_compound # None /\ stint_length > 0
    IN  [stints |-> IF closes
                    THEN Append(st.stints,
                                [compound |-> st.current_compound,
                                 laps |-> stint_length,
                                 start_lap |-> st.current_stint_start,
                                 end_lap |-> lap.LapNumber - 1])
                    ELSE st.stints,
         pit_laps |-> IF closes THEN Append(st.pit_laps, lap.LapNumber) ELSE st.pit_laps,
         current_compound |-> IF changes THEN lap.Compound ELSE st.current_compound,
         current_stint_start |-> IF changes THEN lap.LapNumber ELSE st.current_stint_start]

\* the loop from lap i on. TLC passes operator arguments unevaluated; comparing the new
\* locals with themselves evaluates them at each iteration and changes nothing else
RECURSIVE ScanLaps(_, _, _)
ScanLaps(laps, i, st) ==
    IF i > Len(laps) THEN st
    ELSE LET st1 == ScanLap(laps[i], st)
         IN  IF st1 = st1 THEN ScanLaps(laps, i + 1, st1) ELSE st1

\* driver_laps['LapNumber'].max()
MaxLapNumber(laps) ==
    CHOOSE m \in {laps[i].LapNumber : i \in DOMAIN laps} :
        \A i \in DOMAIN laps : laps[i].LapNumber <= m

\* driver_laps['LapTime'].sum(): missing values are skipped
LapTimeSum(laps) ==
    SumSeq([i \in DOMAIN laps |-> IF laps[i].LapTime = NaT THEN 0 ELSE laps[i].LapTime])

\* _get_actual_strategy_data without the driver_laps.empty test
ActualStrategyNoEmptyTest(tel) ==
    IF ~tel.loads THEN [error |-> "Unable to load race data"]
    ELSE [stops |-> 0, stints |-> << >>, pit_laps |-> << >>,
          total_time |-> LapTimeSum(tel.driver_laps)]

\* the payloads are Python dicts: a record's DOMAIN is the dict's key set
_get_actual_strategy_data(tel) ==
    IF ~tel.loads THEN [error |-> "Unable to load race data"]             \* except branch
    ELSE IF tel.driver_laps = << >> THEN [error |-> "No data available"]  \* driver_laps.empty
    ELSE LET laps == tel.driver_laps
             st == ScanLaps(laps, 1, [stints |-> << >>, pit_laps |-> << >>,
                                      current_compound |-> None, current_stint_start |-> 1])
             final_lap == MaxLapNumber(laps)
             stint_length == final_lap - st.current_stint_start + 1
             stints == IF st.current_compound # None /\ stint_length > 0
                       THEN Append(st.stints, [compound |-> st.current_compound,
                                               laps |-> stint_length,
                                               start_lap |-> st.current_stint_start,
                                               end_lap |-> final_lap])
                       ELSE st.stints
         IN  [stops |-> Len(st.pit_laps), stints |-> stints,
              pit_laps |-> st.pit_laps, total_time |-> LapTimeSum(laps)]

-----------------------------------------------------------------------------
(* _generate_optimal_strategy *)

\* random.randint(-5, 5) and random.randint(-3, 3)
OneStopJitter == 5

TwoStopJitter == 3

Stint(c, n) == [compound |-> c, laps |-> n]

\* OneStopStrategy with the pit lap counted to both stints
OneStopStrategyLapTwice(compound1, compound2, laps, j) ==
    LET pit_lap == Max(10, Min((laps \div 2) + j, laps - 10))
    IN  [stops |-> 1,
         stints |-> <<Stint(compound1, pit_lap), Stint(compound2, laps - pit_lap + 1)>>,
         pit_laps |-> <<pit_lap>>]

\* the dict built by one iteration of the 1-stop loop
OneStopStrategy(compound1, compound2, laps, j) ==
    LET pit_lap == Max(10, Min((laps \div 2) + j, laps - 10))
    IN  [stops |-> 1,
         stints |-> <<Stint(compound1, pit_lap), Stint(compound2, laps - pit_lap)>>,
         pit_laps |-> <<pit_lap>>]

\* TwoStopStrategy with the last stint one lap short
TwoStopStrategyShort(c1, c2, c3, laps, j1, j2) ==
    LET pit1 == Max(8, Min((laps \div 3) + j1, laps - 15))
        pit2 == Max(pit1 + 8, Min(((2 * laps) \div 3) + j2, laps - 8))
    IN  [stops |-> 2,
         stints |-> <<Stint(c1, pit1), Stint(c2, pit2 - pit1), Stint(c3, laps - pit2 - 1)>>,
         pit_laps |-> <<pit1, pit2>>]

\* the dict built by one iteration of the 2-stop loop
TwoStopStrategy(c1, c2, c3, laps, j1, j2) ==
    LET pit1 == Max(8, Min((laps \div 3) + j1, laps - 15))
        pit2 == Max(pit1 + 8, Min(((2 * laps) \div 3) + j2, laps - 8))
    IN  [stops |-> 2,
         stints |-> <<Stint(c1, pit1), Stint(c2, pit2 - pit1), Stint(c3, laps - pit2)>>,
         pit_laps |-> <<pit1, pit2>>]

\* an element of the list strategies: the tuple (strategy, time)
Scored(strategy, base) ==
    [strategy |-> strategy, time |-> _calculate_strategy_time(strategy, base)]

NoStrategy == [strategy |-> [stops |-> 0, stints |-> << >>, pit_laps |-> << >>], time |-> 0]

\* MinByTime keeping the last of the smallest elements
MinByTimeLast(n, b, c) == IF n = 0 \/ c.time <= b.time THEN c ELSE b

\* min(strategies, key=lambda x: x[1]) after strategies.append(c): Python's min keeps
\* the first of the smallest elements, so the new element wins only when strictly smaller
MinByTime(n, b, c) == IF n = 0 \/ c.time < b.time THEN c ELSE b

\* the return value of _generate_optimal_strategy
BestStrategy(n, b, laps, base) ==
    IF n > 0
    THEN [stops |-> b.strategy.stops, stints |-> b.strategy.stints,
          pit_laps |-> b.strategy.pit_laps, total_time |-> b.time,
          time_penalty |-> Len(b.strategy.pit_laps) * pit_stop_time]
    ELSE [stops |-> 1,
          stints |-> <<Stint("MEDIUM", laps \div 2), Stint("HARD", laps - (laps \div 2))>>,
          pit_laps |-> <<laps \div 2>>,
          total_time |-> base * laps + pit_stop_time,
          time_penalty |-> pit_stop_time]

-----------------------------------------------------------------------------
(* _generate_fallback_result, optimize_pit_strategy *)

\* _generate_fallback_result with a SOFT opening stint
FallbackResultSoft ==
    [optimal_strategy |-> [stops |-> 1,
                           stints |-> <<Stint("SOFT", 30), Stint("HARD", 28)>>,
                           pit_laps |-> <<30>>,
                           total_time |-> 542050,
                           time_penalty |-> 2500],
     actual_strategy |-> [error |-> "No race data available"],
     time_savings |-> 0,
     available_compounds |-> <<"SOFT", "MEDIUM", "HARD">>]

_generate_fallback_result ==
    [optimal_strategy |-> [stops |-> 1,
                           stints |-> <<Stint("MEDIUM", 30), Stint("HARD", 28)>>,
                           pit_laps |-> <<30>>,
                           total_time |-> 542050,
                           time_penalty |-> 2500],
     actual_strategy |-> [error |-> "No race data available"],
     time_savings |-> 0,
     available_compounds |-> <<"SOFT", "MEDIUM", "HARD">>]

\* values random.uniform(-10, 30) can return (hundredths)
UniformDraws == {-1000, 0, 3000}

NormalResult(optimal, actual, savings, compounds) ==
    [optimal_strategy |-> optimal,
     actual_strategy |-> actual,
     time_savings |-> savings,
     available_compounds |-> compounds]

NoResponse == [pending |-> TRUE]

NoActual == [pending |-> TRUE]

InitOptimizer ==
    /\ opc = "idle"
    /\ round_num = 0
    /\ round_hashable = TRUE
    /\ session = Unavailable
    /\ total_laps = 0
    /\ base_lap_time = 0
    /\ actual_strategy = NoActual
    /\ loop_k = 0
    /\ n_strategies = 0
    /\ best = NoStrategy
    /\ cand = NoStrategy
    /\ response = NoResponse

\* lines 53-66: the call starts, for a round and a telemetry answer out of calls; an
\* unhashable round_num makes dict.get raise on line 55 and the except branch returns
\* the fallback result
Start(calls, hashables) ==
    /\ opc = "idle"
    /\ \E call \in calls, h \in hashables :
       LET r == call[1]
           tel == call[2]
       IN
        /\ round_num' = r
        /\ round_hashable' = h
        /\ session' = tel
        /\ IF h
           THEN /\ total_laps' = _estimate_race_length(r)
                /\ base_lap_time' = _estimate_lap_time(r)
                /\ actual_strategy' = _get_actual_strategy_data(tel)
                /\ opc' = "one_stop"
                /\ response' = NoResponse
           ELSE /\ opc' = "done"
                /\ response' = _generate_fallback_result
                /\ UNCHANGED <<total_laps, base_lap_time, actual_strategy>>
    /\ loop_k' = 0
    /\ n_strategies' = 0
    /\ best' = NoStrategy
    /\ cand' = NoStrategy
    /\ UNCHANGED <<pvars, cvars, tvars, fvars, xvars>>

\* strategies.append((strategy, time)); the history variable cand is kept when traced
AppendStrategy(c, traced) ==
    /\ cand' = IF traced THEN c ELSE cand
    /\ best' = MinByTime(n_strategies, best, c)
    /\ n_strategies' = n_strategies + 1

\* lines 95-111: one iteration of the 1-stop loops (compound1, compound2)
OneStop(traced) ==
    /\ opc = "one_stop"
    /\ LET compounds == Compounds(track_types(round_num))
           n == Len(compounds)
           compound1 == compounds[(loop_k \div n) + 1]
           compound2 == compounds[(loop_k % n) + 1]
       IN  /\ IF compound1 # compound2
              THEN \E j \in -OneStopJitter..OneStopJitter :
                     AppendStrategy(Scored(OneStopStrategy(compound1, compound2, total_laps, j),
                                           base_lap_time), traced)
              ELSE UNCHANGED <<cand, best, n_strategies>>
           /\ IF loop_k + 1 < n * n
              THEN loop_k' = loop_k + 1 /\ opc' = "one_stop"
              ELSE loop_k' = 0 /\ opc' = "two_stop"
    /\ UNCHANGED <<round_num, round_hashable, session, total_laps, base_lap_time, actual_strategy, response>>
    /\ UNCHANGED <<pvars, cvars, tvars, fvars, xvars>>

\* lines 114-134: one iteration of the 2-stop loops (c1, c2, c3)
TwoStop(traced) ==
    /\ opc = "two_stop"
    /\ LET compounds == Compounds(track_types(round_num))
           n == Len(compounds)
           c1 == compounds[(loop_k \div (n * n)) + 1]
           c2 == compounds[((loop_k \div n) % n) + 1]
           c3 == compounds[(loop_k % n) + 1]
       IN  /\ \E j1, j2 \in -TwoStopJitter..TwoStopJitter :
                AppendStrategy(Scored(TwoStopStrategy(c1, c2, c3, total_laps, j1, j2),
                                      base_lap_time), traced)
           /\ IF loop_k + 1 < n * n * n
              THEN loop_k' = loop_k + 1 /\ opc' = "two_stop"
              ELSE loop_k' = 0 /\ opc' = "select"
    /\ UNCHANGED <<round_num, round_hashable, session, total_laps, base_lap_time, actual_strategy, response>>
    /\ UNCHANGED <<pvars, cvars, tvars, fvars, xvars>>

OptimizeStart == Start(Calls, BOOLEAN)

OneStopIteration == OneStop(FALSE)

TwoStopIteration == TwoStop(FALSE)

\* lines 136-153 and 71-82: the best strategy is returned and compared with the actual one
OptimizeReturn ==
    /\ opc = "select"
    /\ LET optimal == BestStrategy(n_strategies, best, total_laps, base_lap_time)
           compounds == Compounds(track_types(round_num))
       IN  IF "error" \notin DOMAIN actual_strategy
           THEN response' = NormalResult(optimal, actual_strategy,
                                         actual_strategy.total_time - optimal.total_time,
                                         compounds)
           ELSE \E u \in UniformDraws :
                  response' = NormalResult(optimal, actual_strategy, u, compounds)
    /\ opc' = "done"
    /\ UNCHANGED <<round_num, round_hashable, session, total_laps, base_lap_time, actual_strategy,
                   loop_k, n_strategies, best, cand>>
    /\ UNCHANGED <<pvars, cvars, tvars, fvars, xvars>>

\* the caller has the response; the optimizer keeps no state between calls
OptimizeDone ==
    /\ opc = "done"
    /\ opc' = "idle"
    /\ round_num' = 0
    /\ round_hashable' = TRUE
    /\ session' = Unavailable
    /\ total_laps' = 0
    /\ base_lap_time' = 0
    /\ actual_strategy' = NoActual
    /\ loop_k' = 0
    /\ n_strategies' = 0
    /\ best' = NoStrategy
    /\ cand' = NoStrategy
    /\ response' = NoResponse
    /\ UNCHANGED <<pvars, cvars, tvars, fvars, xvars>>

-----------------------------------------------------------------------------
(* EnhancedRacePredictor.__init__ *)
(* Ratings, sensitivities and probabilities are exact decimals held as integers *)
(* in hundredths (0.25 = 25, 1.2 = 120).                                        *)

\* one record of sensitivities per round of the calendar
track_characteristics ==
    <<
        [power_sensitivity |-> 70, aero_sensitivity |-> 60, tire_degradation |-> 80, overtaking_difficulty |-> 60, weather_variability |-> 40, track_evolution |-> 70, safety_car_probability |-> 30, red_flag_probability |-> 10],
        [power_sensitivity |-> 80, aero_sensitivity |-> 70, tire_degradation |-> 70, overtaking_difficulty |-> 40, weather_variability |-> 60, track_evolution |-> 60, safety_car_probability |-> 20, red_flag_probability |-> 5],
        [power_sensitivity |-> 60, aero_sensitivity |-> 90, tire_degradation |-> 60, overtaking_difficulty |-> 70, weather_variability |-> 70, track_evolution |-> 50, safety_car_probability |-> 20, red_flag_probability |-> 10],
        [power_sensitivity |-> 80, aero_sensitivity |-> 60, tire_degradation |-> 90, overtaking_difficulty |-> 30, weather_variability |-> 20, track_evolution |-> 80, safety_car_probability |-> 15, red_flag_probability |-> 5],
        [power_sensitivity |-> 90, aero_sensitivity |-> 50, tire_degradation |-> 80, overtaking_difficulty |-> 80, weather_variability |-> 10, track_evolution |-> 60, safety_car_probability |-> 40, red_flag_probability |-> 15],
        [power_sensitivity |-> 70, aero_sensitivity |-> 70, tire_degradation |-> 80, overtaking_difficulty |-> 50, weather_variability |-> 60, track_evolution |-> 70, safety_car_probability |-> 30, red_flag_probability |-> 10],
        [power_sensitivity |-> 60, aero_sensitivity |-> 80, tire_degradation |-> 70, overtaking_difficulty |-> 80, weather_variability |-> 50, track_evolution |-> 60, safety_car_probability |-> 25, red_flag_probability |-> 10],
        [power_sensitivity |-> 30, aero_sensitivity |-> 90, tire_degradation |-> 50, overtaking_difficulty |-> 95, weather_variability |-> 30, track_evolution |-> 90, safety_car_probability |-> 60, red_flag_probability |-> 20],
        [power_sensitivity |-> 70, aero_sensitivity |-> 80, tire_degradation |-> 70, overtaking_difficulty |-> 60, weather_variability |-> 40, track_evolution |-> 50, safety_car_probability |-> 15, red_flag_probability |-> 5],
        [power_sensitivity |-> 80, aero_sensitivity |-> 60, tire_degradation |-> 80, overtaking_difficulty |-> 40, weather_variability |-> 60, track_evolution |-> 70, safety_car_probability |-> 35, red_flag_probability |-> 15],
        [power_sensitivity |-> 90, aero_sensitivity |-> 50, tire_degradation |-> 90, overtaking_difficulty |-> 30, weather_variability |-> 60, track_evolution |-> 60, safety_car_probability |-> 20, red_flag_probability |-> 8],
        [power_sensitivity |-> 80, aero_sensitivity |-> 70, tire_degradation |-> 80, overtaking_difficulty |-> 40, weather_variability |-> 80, track_evolution |-> 60, safety_car_probability |-> 25, red_flag_probability |-> 10],
        [power_sensitivity |-> 90, aero_sensitivity |-> 60, tire_degradation |-> 60, overtaking_difficulty |-> 30, weather_variability |-> 70, track_evolution |-> 50, safety_car_probability |-> 30, red_flag_probability |-> 15],
        [power_sensitivity |-> 50, aero_sensitivity |-> 90, tire_degradation |-> 90, overtaking_difficulty |-> 90, weather_variability |-> 50, track_evolution |-> 80, safety_car_probability |-> 20, red_flag_probability |-> 8],
        [power_sensitivity |-> 70, aero_sensitivity |-> 80, tire_degradation |-> 80, overtaking_difficulty |-> 60, weather_variability |-> 60, track_evolution |-> 70, safety_car_probability |-> 25, red_flag_probability |-> 10],
        [power_sensitivity |-> 90, aero_sensitivity |-> 40, tire_degradation |-> 70, overtaking_difficulty |-> 20, weather_variability |-> 40, track_evolution |-> 50, safety_car_probability |-> 20, red_flag_probability |-> 8],
        [power_sensitivity |-> 90, aero_sensitivity |-> 50, tire_degradation |-> 80, overtaking_difficulty |-> 60, weather_variability |-> 30, track_evolution |-> 70, safety_car_probability |-> 50, red_flag_probability |-> 20],
        [power_sensitivity |-> 60, aero_sensitivity |-> 80, tire_degradation |-> 90, overtaking_difficulty |-> 80, weather_variability |-> 60, track_evolution |-> 80, safety_car_probability |-> 40, red_flag_probability |-> 15],
        [power_sensitivity |-> 80, aero_sensitivity |-> 70, tire_degradation |-> 80, overtaking_difficulty |-> 40, weather_variability |-> 50, track_evolution |-> 70, safety_car_probability |-> 25, red_flag_probability |-> 10],
        [power_sensitivity |-> 70, aero_sensitivity |-> 80, tire_degradation |-> 90, overtaking_difficulty |-> 50, weather_variability |-> 40, track_evolution |-> 60, safety_car_probability |-> 30, red_flag_probability |-> 12],
        [power_sensitivity |-> 70, aero_sensitivity |-> 80, tire_degradation |-> 80, overtaking_difficulty |-> 40, weather_variability |-> 80, track_evolution |-> 70, safety_car_probability |-> 40, red_flag_probability |-> 20],
        [power_sensitivity |-> 90, aero_sensitivity |-> 50, tire_degradation |-> 80, overtaking_difficulty |-> 40, weather_variability |-> 20, track_evolution |-> 60, safety_car_probability |-> 30, red_flag_probability |-> 10],
        [power_sensitivity |-> 80, aero_sensitivity |-> 70, tire_degradation |-> 80, overtaking_difficulty |-> 50, weather_variability |-> 20, track_evolution |-> 60, safety_car_probability |-> 20, red_flag_probability |-> 8],
        [power_sensitivity |-> 80, aero_sensitivity |-> 70, tire_degradation |-> 80, overtaking_difficulty |-> 50, weather_variability |-> 20, track_evolution |-> 60, safety_car_probability |-> 25, red_flag_probability |-> 10]
    >>

\* the roster of predict_race_outcome
active_drivers ==
    <<"VER", "LAW", "LEC", "HAM", "RUS", "ANT", "NOR", "PIA", "ALO", "STR",
      "GAS", "DOO", "HUL", "OCO", "ALB", "SAI", "TSU", "HAD", "COL", "BEA">>

-----------------------------------------------------------------------------
(* The round_num values a caller can pass (app.py hands over the JSON value) *)

IntRound(r) == [kind |-> "int", value |-> r]

\* a number that is no int (1.5), and a value that is no number ("abc", null)
FloatRound == [kind |-> "float", value |-> 1]

TextRound == [kind |-> "str", value |-> 0]

RoundValues == {IntRound(r) : r \in Rounds} \cup {FloatRound, TextRound}

\* round_num / 24, round_num > 15, round_num - 1 need a number
IsNumber(rv) == rv.kind \in {"int", "float"}

\* f'{...:02d}' needs an int
IsInt(rv) == rv.kind = "int"

-----------------------------------------------------------------------------
(* calculate_dynamic_factors *)

Weathers == {"dry", "wet", "mixed"}

\* track_char.get(key, default) of track_characteristics.get(round_num, {})
TrackChar(r, key, default) ==
    IF r \in DOMAIN track_characteristics THEN track_characteristics[r][key] ELSE default

\* the weather conditions the two np.random.random() draws can give: the first draw
\* lies in [0, 1), so a non-dry condition needs weather_var * 0.3 > 0
PossibleWeathers(r) ==
    IF TrackChar(r, "weather_variability", 50) * 30 > 0 THEN Weathers ELSE {"dry"}

\* lines 359-364 with the late season starting at round 15
DynamicFactorsLateFrom15(r, weather) ==
    [season_progress |-> <<r, 24>>,
     championship_pressure |-> IF r >= 15 THEN 120 ELSE IF r > 10 THEN 100 ELSE 80,
     weather_condition |-> weather,
     safety_car_probability |-> TrackChar(r, "safety_car_probability", 25)]

\* season_progress is round_num / 24, held as the pair <<numerator, denominator>>
calculate_dynamic_factors(r, weather) ==
    [season_progress |-> <<r, 24>>,
     championship_pressure |-> IF r > 15 THEN 120 ELSE IF r > 10 THEN 100 ELSE 80,
     weather_condition |-> weather,
     safety_car_probability |-> TrackChar(r, "safety_car_probability", 25)]

-----------------------------------------------------------------------------
(* _get_race_info, _generate_fallback_predictions *)

\* race_name and circuit are held as the key of the entry of race_names and circuits
\* that is used, 0 for the defaults f'Race {round_num}' and 'Unknown Circuit'
_get_race_info(r) ==
    [round |-> r,
     race_name |-> IF r \in 1..24 THEN r ELSE 0,
     circuit |-> IF r \in 1..24 THEN r ELSE 0,
     date |-> <<2025, 3 + ((r - 1) \div 4), 1 + (((r - 1) * 7) % 28)>>]

Entry(d, p) == [driver |-> d, probability |-> p]

\* a confidence is held as the pair <<numerator, denominator>>
_generate_fallback_predictions(r) ==
    [race_info |-> _get_race_info(r),
     winner_prediction |-> Entry("VER", 25),
     podium_predictions |-> <<Entry("VER", 25), Entry("LEC", 20), Entry("HAM", 18),
                              Entry("RUS", 15), Entry("NOR", 14), Entry("PIA", 12),
                              Entry("ALO", 10), Entry("SAI", 8)>>,
     points_predictions |-> <<Entry("VER", 90), Entry("LEC", 85), Entry("HAM", 80),
                              Entry("RUS", 75), Entry("NOR", 70), Entry("PIA", 65),
                              Entry("ALO", 60), Entry("SAI", 55), Entry("STR", 35),
                              Entry("ALB", 30)>>,
     model_confidence |-> <<60, 100>>,
     dynamic_factors |-> [weather_condition |-> "dry", championship_pressure |-> 100]]

-----------------------------------------------------------------------------
(* The fitted regressors, as predict_race_outcome sees them *)

\* values a regressor may return for a competitor (hundredths), below 0 and above 1 too
RawValues == <<-20, 0, 25, 50, 100, 130>>

\* one output vector: the value for the i-th row of the feature matrix
OutputPattern(a, b) ==
    [i \in DOMAIN active_drivers |-> RawValues[((a * i + b) % Len(RawValues)) + 1]]

\* the output vectors explored for each regressor
RegressorOutputs == {OutputPattern(0, 3), OutputPattern(0, 5), OutputPattern(1, 0),
                     OutputPattern(5, 1)}

\* the predicted positions explored: the roster order, its reverse, all equal
PositionOutputs == {[i \in DOMAIN active_drivers |-> 100 * i],
                    [i \in DOMAIN active_drivers |-> 100 * (21 - i)],
                    [i \in DOMAIN active_drivers |-> 1050]}

\* the outputs taken as they come
ClipNone(x) == x

\* np.clip(x, 0, 1)
Clip01(x) == Max(0, Min(x, 100))

-----------------------------------------------------------------------------
(* predict_race_outcome: sorting, selection, confidence *)

\* sorted(seq, key=..., reverse=desc): Python's sort is stable, also with reverse=True;
\* the place of element i is the number of elements that go before it, plus one
SortedBy(seq, field, desc) ==
    LET key == [i \in DOMAIN seq |-> seq[i][field]]
        Before(j, i) ==
            \/ (IF desc THEN key[j] > key[i] ELSE key[j] < key[i])
            \/ (key[j] = key[i] /\ j < i)
        place == [i \in DOMAIN seq |-> Cardinality({j \in DOMAIN seq : Before(j, i)}) + 1]
    IN  [k \in DOMAIN seq |-> seq[CHOOSE i \in DOMAIN seq : place[i] = k]]

\* seq[:n]
Take(seq, n) == SubSeq(seq, 1, Min(n, Len(seq)))

\* the first element, the one with the lowest predicted position
FirstOf(seq, field) == seq[1]

\* max(seq, key=...): the first of the largest elements
MaxBy(seq, field) ==
    LET key == [i \in DOMAIN seq |-> seq[i][field]]
    IN  seq[CHOOSE i \in DOMAIN seq :
                /\ \A j \in DOMAIN seq : key[j] <= key[i]
                /\ \A j \in 1..(i - 1) : key[j] < key[i]]

\* lines 646-657: one record per driver name, sorted by predicted position
Predictions(driver_names, pos, win, pod, pts) ==
    SortedBy([i \in DOMAIN driver_names |->
                 [driver |-> driver_names[i],
                  predicted_position |-> pos[i],
                  win_probability |-> Clip01(win[i]),
                  podium_probability |-> Clip01(pod[i]),
                  points_probability |-> Clip01(pts[i])]],
             "predicted_position", FALSE)

\* podium_predictions with the three podium places only
PodiumTopThree(predictions) ==
    LET top == Take(SortedBy(predictions, "podium_probability", TRUE), 3)
    IN  [k \in DOMAIN top |-> Entry(top[k].driver, top[k].podium_probability)]

\* lines 665, 674-677
PodiumPredictions(predictions) ==
    LET top == Take(SortedBy(predictions, "podium_probability", TRUE), 8)
    IN  [k \in DOMAIN top |-> Entry(top[k].driver, top[k].podium_probability)]

\* points_predictions cut from the records in the order of the predicted positions
PointsByPosition(predictions) ==
    LET top == Take(predictions, 10)
    IN  [k \in DOMAIN top |-> Entry(top[k].driver, top[k].points_probability)]

\* lines 666, 678-681
PointsPredictions(predictions) ==
    LET top == Take(SortedBy(predictions, "points_probability", TRUE), 10)
    IN  [k \in DOMAIN top |-> Entry(top[k].driver, top[k].points_probability)]

\* the confidence with the variance weighted by 2
ConfidenceFactorTwo(predictions) ==
    LET n == Len(predictions)
        s1 == SumSeq([i \in DOMAIN predictions |-> predictions[i].win_probability])
        s2 == SumSeq([i \in DOMAIN predictions |->
                         predictions[i].win_probability * predictions[i].win_probability])
        den == n * n * 10000
    IN  <<Max(0, Min(den, den - 2 * (n * s2 - s1 * s1))), den>>

\* _calculate_model_confidence: max(0, min(1, 1 - variance * 4)) with
\* variance = (n * sum(p^2) - sum(p)^2) / n^2 over the win probabilities p (hundredths),
\* held as the pair <<numerator, denominator>> with denominator n^2 * 100^2
_calculate_model_confidence(predictions) ==
    LET n == Len(predictions)
        s1 == SumSeq([i \in DOMAIN predictions |-> predictions[i].win_probability])
        s2 == SumSeq([i \in DOMAIN predictions |->
                         predictions[i].win_probability * predictions[i].win_probability])
        den == n * n * 10000
    IN  <<Max(0, Min(den, den - 4 * (n * s2 - s1 * s1))), den>>

\* lines 663-681 and 684: the parts of the returned dict computed from the records
Ranking(predictions) ==
    LET winner_prediction == MaxBy(predictions, "win_probability")
    IN  [winner_prediction |-> Entry(winner_prediction.driver,
                                     winner_prediction.win_probability),
         podium_predictions |-> PodiumPredictions(predictions),
         points_predictions |-> PointsPredictions(predictions),
         full_predictions |-> predictions,
         model_confidence |-> _calculate_model_confidence(predictions)]

\* the rankings of every combination of regressor outputs explored
Rankings ==
    {Ranking(predictions) :
        predictions \in {Predictions(active_drivers, pos, win, pod, pts) :
                            pos \in PositionOutputs, win \in RegressorOutputs,
                            pod \in RegressorOutputs, pts \in RegressorOutputs}}

\* lines 663-685: the dict returned from the try block
ModelResult(r, ranking, dynamic_factors) ==
    [race_info |-> _get_race_info(r),
     winner_prediction |-> ranking.winner_prediction,
     podium_predictions |-> ranking.podium_predictions,
     points_predictions |-> ranking.points_predictions,
     full_predictions |-> ranking.full_predictions,
     dynamic_factors |-> dynamic_factors,
     model_confidence |-> ranking.model_confidence]

-----------------------------------------------------------------------------
(* train_models *)

\* the regressors and the scaler: an attribute is None, a constructed estimator that
\* was not fitted, or a fitted one
Untrained ==
    [position_model |-> "None", win_probability_model |-> "None",
     podium_probability_model |-> "None", points_probability_model |-> "None",
     scaler |-> "unfitted"]

\* the statement of train_models that raises, "none" when none does
TrainFailures == {"none", "generate", "position", "win", "podium", "points", "scaler"}

TrainOrder == <<"generate", "position", "win", "podium", "points", "scaler">>

StepOf(fail) == IF fail = "none" THEN Len(TrainOrder) + 1
                ELSE CHOOSE k \in DOMAIN TrainOrder : TrainOrder[k] = fail

\* the attribute assigned by statement k of TrainOrder: it is assigned the new
\* estimator before fit is called on it (lines 486-505); the scaler is only fitted
Assigned(old, k, fail) ==
    IF StepOf(fail) < k THEN old
    ELSE IF StepOf(fail) = k THEN (IF TrainOrder[k] = "scaler" THEN old ELSE "unfitted")
    ELSE "fitted"

\* the attributes after train_models ran and the statement fail raised
train_models(m, fail) ==
    [position_model |-> Assigned(m.position_model, 2, fail),
     win_probability_model |-> Assigned(m.win_probability_model, 3, fail),
     podium_probability_model |-> Assigned(m.podium_probability_model, 4, fail),
     points_probability_model |-> Assigned(m.points_probability_model, 5, fail),
     scaler |-> Assigned(m.scaler, 6, fail)]

-----------------------------------------------------------------------------
(* predict_race_outcome *)

\* the except branch and line 624: the fallback ranking, whose _get_race_info raises
\* in turn when round_num is no int, and then nothing catches it
FallbackOutcome(rv) ==
    IF IsInt(rv)
    THEN [raised |-> FALSE, path |-> "fallback",
          result |-> _generate_fallback_predictions(rv.value)]
    ELSE [raised |-> TRUE, path |-> "fallback", result |-> NoResponse]

\* lines 626-638 and 660 raise: round_num / 24 needs a number, transform and predict
\* need a fitted scaler and fitted regressors, the date format needs an int
InferenceRaises(rv, m) ==
    \/ ~IsNumber(rv)
    \/ m.scaler # "fitted"
    \/ m.position_model # "fitted"
    \/ m.win_probability_model # "fitted"
    \/ m.podium_probability_model # "fitted"
    \/ m.points_probability_model # "fitted"
    \/ ~IsInt(rv)

\* no call has ended
NoCall == [raised |-> FALSE, path |-> "none", result |-> NoResponse]

InitPredictor ==
    /\ ppc = "idle"
    /\ p_round = TextRound
    /\ models = Untrained
    /\ outcome = NoCall

\* the call trains whether or not position_model is there
PredictCallRetrains ==
    /\ ppc = "idle"
    /\ \E rv \in RoundValues : p_round' = rv
    /\ ppc' = "train"
    /\ UNCHANGED <<models, outcome>>
    /\ UNCHANGED <<ovars, cvars, tvars, fvars, xvars>>

\* lines 612-624: the call starts; an absent position_model starts training
PredictCall ==
    /\ ppc = "idle"
    /\ \E rv \in RoundValues : p_round' = rv
    /\ ppc' = IF models.position_model = "None" THEN "train" ELSE "infer"
    /\ UNCHANGED <<models, outcome>>
    /\ UNCHANGED <<ovars, cvars, tvars, fvars, xvars>>

\* lines 623-624 and train_models: the models are trained, or a statement raises and
\* train_models returns False, on which the fallback ranking is returned
TrainModels ==
    /\ ppc = "train"
    /\ \E fail \in TrainFailures :
        /\ models' = train_models(models, fail)
        /\ IF fail = "none"
           THEN ppc' = "infer" /\ UNCHANGED outcome
           ELSE ppc' = "done" /\ outcome' = FallbackOutcome(p_round)
    /\ UNCHANGED p_round
    /\ UNCHANGED <<ovars, cvars, tvars, fvars, xvars>>

\* lines 626-689: features, scaling, inference and the result, or the except branch
Infer ==
    /\ ppc = "infer"
    /\ IF InferenceRaises(p_round, models)
       THEN outcome' = FallbackOutcome(p_round)
       ELSE \E weather \in PossibleWeathers(p_round.value), ranking \in Rankings :
              outcome' = [raised |-> FALSE, path |-> "model",
                          result |-> ModelResult(
                              p_round.value, ranking,
                              calculate_dynamic_factors(p_round.value, weather))]
    /\ ppc' = "done"
    /\ UNCHANGED <<p_round, models>>
    /\ UNCHANGED <<ovars, cvars, tvars, fvars, xvars>>

\* the caller has the result or the exception; the trained state stays
PredictDone ==
    /\ ppc = "done"
    /\ ppc' = "idle"
    /\ p_round' = TextRound
    /\ outcome' = NoCall
    /\ UNCHANGED models
    /\ UNCHANGED <<ovars, cvars, tvars, fvars, xvars>>

-----------------------------------------------------------------------------
(* predict_race_outcome called from the request threads of the server            *)
(* (app.run(..., threaded=True)) on the one predictor of the process: the threads *)
(* share the four regressors and the scaler, and no lock is taken anywhere        *)

MaxThreads == 2

Threads == 1..MaxThreads

\* calls of train_models explored in one run of the process
MaxTrainRuns == 3

\* the attribute statement k of TrainOrder assigns
TrainTarget ==
    <<"none", "position_model", "win_probability_model", "podium_probability_model",
      "points_probability_model", "scaler">>

\* the attributes after statement k of train_models ran, or raised
TrainStatement(m, k, raises) ==
    IF k = 1 THEN m
    ELSE [m EXCEPT ![TrainTarget[k]] =
              Assigned(m[TrainTarget[k]], k, IF raises THEN TrainOrder[k] ELSE "none")]

Outside == [pc |-> "idle", step |-> 0, path |-> "none"]

InitThreads ==
    /\ threads = [t \in Threads |-> Outside]
    /\ train_runs = 0
    /\ train_failures = 0

\* lines 621-623: the thread tests self.position_model is None and, if so, calls
\* train_models
ThreadEnter(t) ==
    /\ threads[t].pc = "idle"
    /\ IF models.position_model = "None"
       THEN /\ train_runs < MaxTrainRuns
            /\ threads' = [threads EXCEPT ![t] = [pc |-> "train", step |-> 1, path |-> "none"]]
            /\ train_runs' = train_runs + 1
       ELSE /\ threads' = [threads EXCEPT ![t] = [pc |-> "infer", step |-> 0, path |-> "none"]]
            /\ UNCHANGED train_runs
    /\ UNCHANGED <<models, train_failures>>
    /\ UNCHANGED <<ovars, tvars, fvars, ppc, p_round, outcome, xvars>>

\* one statement of train_models in thread t: it completes, or it raises and
\* train_models returns False, on which line 624 returns the fallback ranking
ThreadTrain(t) ==
    /\ threads[t].pc = "train"
    /\ \E raises \in BOOLEAN :
        LET k == threads[t].step
        IN  /\ models' = TrainStatement(models, k, raises)
            /\ IF raises
               THEN /\ threads' = [threads EXCEPT ![t] =
                                      [pc |-> "done", step |-> 0, path |-> "fallback"]]
                    /\ train_failures' = train_failures + 1
               ELSE /\ threads' = [threads EXCEPT ![t] =
                                      IF k = Len(TrainOrder)
                                      THEN [pc |-> "infer", step |-> 0, path |-> "none"]
                                      ELSE [pc |-> "train", step |-> k + 1, path |-> "none"]]
                    /\ UNCHANGED train_failures
    /\ UNCHANGED train_runs
    /\ UNCHANGED <<ovars, tvars, fvars, ppc, p_round, outcome, xvars>>

\* lines 626-689 in thread t, for an int round_num: the result of the try block, or
\* the fallback ranking when the scaler or a regressor is not fitted
ThreadInfer(t) ==
    /\ threads[t].pc = "infer"
    /\ threads' = [threads EXCEPT ![t] =
                      [pc |-> "done", step |-> 0,
                       path |-> IF InferenceRaises(IntRound(1), models)
                                THEN "fallback" ELSE "model"]]
    /\ UNCHANGED <<models, train_runs, train_failures>>
    /\ UNCHANGED <<ovars, tvars, fvars, ppc, p_round, outcome, xvars>>

\* the request of thread t is answered
ThreadReturn(t) ==
    /\ threads[t].pc = "done"
    /\ threads' = [threads EXCEPT ![t] = Outside]
    /\ UNCHANGED <<models, train_runs, train_failures>>
    /\ UNCHANGED <<ovars, tvars, fvars, ppc, p_round, outcome, xvars>>

Enter == \E t \in Threads : ThreadEnter(t)

Train == \E t \in Threads : ThreadTrain(t)

InferInThread == \E t \in Threads : ThreadInfer(t)

Return == \E t \in Threads : ThreadReturn(t)

-----------------------------------------------------------------------------
(* build_feature_matrix: ratings, teams, historical performance, the vectors     *)
(* A feature is held as the pair <<numerator, denominator>>.                     *)

\* driver_ratings: the nine ratings of a competitor, 0..100
driver_ratings ==
    [d \in {"VER", "LEC", "HAM", "RUS", "NOR", "PIA", "SAI", "ALO", "STR", "ALB", "OCO", "HUL", "TSU", "LAW", "GAS", "DOO", "MAG", "BOT", "ZHO", "ANT", "HAD", "COL", "BEA"} |->
        CASE d = "VER" -> [skill |-> 98, consistency |-> 95, race_craft |-> 96, qualifying |-> 92, wet_weather |-> 97, overtaking |-> 94, tire_management |-> 95, pressure_handling |-> 97, championship_experience |-> 98]
          [] d = "LEC" -> [skill |-> 95, consistency |-> 88, race_craft |-> 90, qualifying |-> 97, wet_weather |-> 92, overtaking |-> 89, tire_management |-> 88, pressure_handling |-> 89, championship_experience |-> 85]
          [] d = "HAM" -> [skill |-> 96, consistency |-> 92, race_craft |-> 98, qualifying |-> 89, wet_weather |-> 96, overtaking |-> 95, tire_management |-> 94, pressure_handling |-> 98, championship_experience |-> 99]
          [] d = "RUS" -> [skill |-> 91, consistency |-> 89, race_craft |-> 87, qualifying |-> 93, wet_weather |-> 88, overtaking |-> 85, tire_management |-> 86, pressure_handling |-> 87, championship_experience |-> 75]
          [] d = "NOR" -> [skill |-> 90, consistency |-> 87, race_craft |-> 85, qualifying |-> 88, wet_weather |-> 84, overtaking |-> 87, tire_management |-> 86, pressure_handling |-> 85, championship_experience |-> 80]
          [] d = "PIA" -> [skill |-> 87, consistency |-> 84, race_craft |-> 82, qualifying |-> 86, wet_weather |-> 81, overtaking |-> 83, tire_management |-> 84, pressure_handling |-> 82, championship_experience |-> 70]
          [] d = "SAI" -> [skill |-> 88, consistency |-> 86, race_craft |-> 87, qualifying |-> 85, wet_weather |-> 85, overtaking |-> 84, tire_management |-> 87, pressure_handling |-> 86, championship_experience |-> 82]
          [] d = "ALO" -> [skill |-> 93, consistency |-> 91, race_craft |-> 95, qualifying |-> 87, wet_weather |-> 93, overtaking |-> 92, tire_management |-> 94, pressure_handling |-> 95, championship_experience |-> 95]
          [] d = "STR" -> [skill |-> 78, consistency |-> 79, race_craft |-> 80, qualifying |-> 78, wet_weather |-> 79, overtaking |-> 76, tire_management |-> 78, pressure_handling |-> 75, championship_experience |-> 78]
          [] d = "ALB" -> [skill |-> 84, consistency |-> 83, race_craft |-> 83, qualifying |-> 82, wet_weather |-> 82, overtaking |-> 80, tire_management |-> 83, pressure_handling |-> 81, championship_experience |-> 77]
          [] d = "OCO" -> [skill |-> 85, consistency |-> 85, race_craft |-> 86, qualifying |-> 83, wet_weather |-> 84, overtaking |-> 82, tire_management |-> 85, pressure_handling |-> 83, championship_experience |-> 79]
          [] d = "HUL" -> [skill |-> 86, consistency |-> 88, race_craft |-> 87, qualifying |-> 86, wet_weather |-> 86, overtaking |-> 83, tire_management |-> 87, pressure_handling |-> 84, championship_experience |-> 82]
          [] d = "TSU" -> [skill |-> 81, consistency |-> 80, race_craft |-> 79, qualifying |-> 81, wet_weather |-> 78, overtaking |-> 77, tire_management |-> 79, pressure_handling |-> 78, championship_experience |-> 74]
          [] d = "LAW" -> [skill |-> 78, consistency |-> 77, race_craft |-> 76, qualifying |-> 78, wet_weather |-> 75, overtaking |-> 74, tire_management |-> 76, pressure_handling |-> 75, championship_experience |-> 70]
          [] d = "GAS" -> [skill |-> 86, consistency |-> 84, race_craft |-> 84, qualifying |-> 85, wet_weather |-> 83, overtaking |-> 81, tire_management |-> 84, pressure_handling |-> 82, championship_experience |-> 78]
          [] d = "DOO" -> [skill |-> 76, consistency |-> 75, race_craft |-> 74, qualifying |-> 76, wet_weather |-> 73, overtaking |-> 72, tire_management |-> 74, pressure_handling |-> 72, championship_experience |-> 65]
          [] d = "MAG" -> [skill |-> 82, consistency |-> 81, race_craft |-> 82, qualifying |-> 80, wet_weather |-> 80, overtaking |-> 78, tire_management |-> 81, pressure_handling |-> 79, championship_experience |-> 76]
          [] d = "BOT" -> [skill |-> 87, consistency |-> 87, race_craft |-> 86, qualifying |-> 88, wet_weather |-> 87, overtaking |-> 84, tire_management |-> 86, pressure_handling |-> 85, championship_experience |-> 85]
          [] d = "ZHO" -> [skill |-> 77, consistency |-> 76, race_craft |-> 75, qualifying |-> 77, wet_weather |-> 74, overtaking |-> 73, tire_management |-> 75, pressure_handling |-> 74, championship_experience |-> 72]
          [] d = "ANT" -> [skill |-> 83, consistency |-> 78, race_craft |-> 76, qualifying |-> 85, wet_weather |-> 79, overtaking |-> 77, tire_management |-> 80, pressure_handling |-> 75, championship_experience |-> 60]
          [] d = "HAD" -> [skill |-> 79, consistency |-> 76, race_craft |-> 74, qualifying |-> 80, wet_weather |-> 75, overtaking |-> 73, tire_management |-> 77, pressure_handling |-> 73, championship_experience |-> 65]
          [] d = "COL" -> [skill |-> 77, consistency |-> 74, race_craft |-> 72, qualifying |-> 78, wet_weather |-> 73, overtaking |-> 71, tire_management |-> 75, pressure_handling |-> 71, championship_experience |-> 62]
          [] d = "BEA" -> [skill |-> 75, consistency |-> 73, race_craft |-> 71, qualifying |-> 76, wet_weather |-> 72, overtaking |-> 69, tire_management |-> 74, pressure_handling |-> 70, championship_experience |-> 60]]

\* team_performance: the four ratings of a team, 0..100
team_performance ==
    [t \in {"Red Bull Racing Honda RBPT",
             "McLaren Mercedes",
             "Ferrari",
             "Mercedes",
             "Aston Martin Aramco Mercedes",
             "Alpine Renault",
             "Haas Ferrari",
             "Racing Bulls Honda RBPT",
             "Williams Mercedes",
             "Kick Sauber Ferrari"} |->
        CASE t = "Red Bull Racing Honda RBPT" -> [car_performance |-> 92, strategy |-> 95, pit_stops |-> 98, reliability |-> 88]
          [] t = "McLaren Mercedes" -> [car_performance |-> 95, strategy |-> 90, pit_stops |-> 92, reliability |-> 92]
          [] t = "Ferrari" -> [car_performance |-> 89, strategy |-> 85, pit_stops |-> 88, reliability |-> 85]
          [] t = "Mercedes" -> [car_performance |-> 87, strategy |-> 92, pit_stops |-> 95, reliability |-> 94]
          [] t = "Aston Martin Aramco Mercedes" -> [car_performance |-> 82, strategy |-> 86, pit_stops |-> 85, reliability |-> 88]
          [] t = "Alpine Renault" -> [car_performance |-> 78, strategy |-> 82, pit_stops |-> 83, reliability |-> 86]
          [] t = "Haas Ferrari" -> [car_performance |-> 80, strategy |-> 78, pit_stops |-> 80, reliability |-> 84]
          [] t = "Racing Bulls Honda RBPT" -> [car_performance |-> 79, strategy |-> 81, pit_stops |-> 85, reliability |-> 82]
          [] t = "Williams Mercedes" -> [car_performance |-> 76, strategy |-> 79, pit_stops |-> 82, reliability |-> 81]
          [] t = "Kick Sauber Ferrari" -> [car_performance |-> 74, strategy |-> 77, pit_stops |-> 78, reliability |-> 79]]

\* driver_team_mapping of get_driver_team
driver_team_mapping ==
    [d \in {"VER", "LAW", "LEC", "HAM", "RUS", "ANT", "NOR", "PIA", "ALO", "STR", "GAS", "DOO", "HUL", "OCO", "ALB", "SAI", "TSU", "HAD", "COL", "BEA"} |->
        CASE d = "VER" -> "Red Bull Racing Honda RBPT"
          [] d = "LAW" -> "Red Bull Racing Honda RBPT"
          [] d = "LEC" -> "Ferrari"
          [] d = "HAM" -> "Ferrari"
          [] d = "RUS" -> "Mercedes"
          [] d = "ANT" -> "Mercedes"
          [] d = "NOR" -> "McLaren Mercedes"
          [] d = "PIA" -> "McLaren Mercedes"
          [] d = "ALO" -> "Aston Martin Aramco Mercedes"
          [] d = "STR" -> "Aston Martin Aramco Mercedes"
          [] d = "GAS" -> "Alpine Renault"
          [] d = "DOO" -> "Alpine Renault"
          [] d = "HUL" -> "Haas Ferrari"
          [] d = "OCO" -> "Haas Ferrari"
          [] d = "ALB" -> "Williams Mercedes"
          [] d = "SAI" -> "Williams Mercedes"
          [] d = "TSU" -> "Racing Bulls Honda RBPT"
          [] d = "HAD" -> "Racing Bulls Honda RBPT"
          [] d = "COL" -> "Kick Sauber Ferrari"
          [] d = "BEA" -> "Kick Sauber Ferrari"]

\* driver_team_synergy: the multiplier of a (driver, team) pair, in hundredths
driver_team_synergy ==
    [p \in {<<"VER", "Red Bull Racing Honda RBPT">>,
             <<"LEC", "Ferrari">>,
             <<"HAM", "Ferrari">>,
             <<"RUS", "Mercedes">>,
             <<"NOR", "McLaren Mercedes">>,
             <<"PIA", "McLaren Mercedes">>,
             <<"ALO", "Aston Martin Aramco Mercedes">>} |->
        CASE p = <<"VER", "Red Bull Racing Honda RBPT">> -> 105
          [] p = <<"LEC", "Ferrari">> -> 103
          [] p = <<"HAM", "Ferrari">> -> 98
          [] p = <<"RUS", "Mercedes">> -> 102
          [] p = <<"NOR", "McLaren Mercedes">> -> 104
          [] p = <<"PIA", "McLaren Mercedes">> -> 101
          [] p = <<"ALO", "Aston Martin Aramco Mercedes">> -> 103]

\* {}: the dict without a key
EmptyDict == <<>>

\* dict.get(key, default)
Get(dict, key, default) == IF key \in DOMAIN dict THEN dict[key] ELSE default

\* a missing rating taken as 0
RatingOrZero(ratings, key) == Get(ratings, key, 0)

\* driver_rating.get(key, 75), team_perf.get(key, 75)
Rating(ratings, key) == Get(ratings, key, 75)

\* get_driver_team
get_driver_team(driver) == Get(driver_team_mapping, driver, "Unknown Team")

\* the draws of np.random.normal(0, 2) and np.random.normal(0, 1.5) explored for one
\* competitor, in ten-thousandths of a position
NoiseDraws == {<<-30000, 0>>, <<0, -20000>>, <<25000, 15000>>, <<-30000, -20000>>}

\* lines 324-345 with the threshold test >= 0.7
HistoricalFromAtLeast(driver_rating, track_char, noise) ==
    LET base_performance == Rating(driver_rating, "skill")
        performance_adj ==
            IF Get(track_char, "overtaking_difficulty", 50) >= 70
            THEN Rating(driver_rating, "qualifying")
            ELSE Rating(driver_rating, "race_craft")
        historical_avg_position ==
            Max(10000, Min(200000,
                100000 - ((base_performance * performance_adj - 5000) * 15) + noise[1]))
    IN  [avg_position |-> historical_avg_position,
         avg_grid |-> historical_avg_position + noise[2],
         podiums |-> Max(0, ((200000 - historical_avg_position) * 6) \div 200000),
         wins |-> Max(0, ((200000 - historical_avg_position) * 3) \div 400000)]

\* lines 324-345 of get_historical_performance, from the two dicts it looked up;
\* avg_position and avg_grid in ten-thousandths
HistoricalFrom(driver_rating, track_char, noise) ==
    LET base_performance == Rating(driver_rating, "skill")
        performance_adj ==
            IF Get(track_char, "overtaking_difficulty", 50) > 70
            THEN Rating(driver_rating, "qualifying")
            ELSE Rating(driver_rating, "race_craft")
        historical_avg_position ==
            Max(10000, Min(200000,
                100000 - ((base_performance * performance_adj - 5000) * 15) + noise[1]))
    IN  [avg_position |-> historical_avg_position,
         avg_grid |-> historical_avg_position + noise[2],
         podiums |-> Max(0, ((200000 - historical_avg_position) * 6) \div 200000),
         wins |-> Max(0, ((200000 - historical_avg_position) * 3) \div 400000)]

\* get_historical_performance
get_historical_performance(driver, track_id, noise) ==
    HistoricalFrom(Get(driver_ratings, driver, EmptyDict),
                   Get(track_characteristics, track_id, EmptyDict), noise)

\* the keys read in lines 404-426, in the order of the vector
DriverKeys ==
    <<"skill", "consistency", "race_craft", "qualifying", "wet_weather", "overtaking",
      "tire_management", "pressure_handling", "championship_experience">>

TeamKeys == <<"car_performance", "strategy", "pit_stops", "reliability">>

TrackKeys ==
    <<"power_sensitivity", "aero_sensitivity", "tire_degradation", "overtaking_difficulty",
      "weather_variability", "track_evolution", "safety_car_probability">>

\* the default of track_char.get for a key
TrackDefault(key) == IF key = "safety_car_probability" THEN 25 ELSE 50

\* min(x, 1.0) of the fraction num / den
AtMostOne(num, den) == <<Min(num, den), den>>

\* lines 402-440: the feature_vector of one competitor
FeatureVector(driver, track_char, historical, dynamic_factors) ==
    LET driver_rating == Get(driver_ratings, driver, EmptyDict)
        team == get_driver_team(driver)
        team_perf == Get(team_performance, team, EmptyDict)
        synergy == Get(driver_team_synergy, <<driver, team>>, 100)
    IN  [k \in DOMAIN DriverKeys |-> <<Rating(driver_rating, DriverKeys[k]), 100>>]
        \o [k \in DOMAIN TeamKeys |-> <<Rating(team_perf, TeamKeys[k]), 100>>]
        \o [k \in DOMAIN TrackKeys |->
               <<Get(track_char, TrackKeys[k], TrackDefault(TrackKeys[k])), 100>>]
        \o <<AtMostOne(historical.avg_position, 200000),
             AtMostOne(historical.avg_grid, 200000),
             AtMostOne(historical.podiums, 10),
             AtMostOne(historical.wins, 5)>>
        \o <<dynamic_factors.season_progress,
             <<dynamic_factors.championship_pressure, 100>>,
             <<IF dynamic_factors.weather_condition = "wet" THEN 1 ELSE 0, 1>>,
             <<IF dynamic_factors.weather_condition = "mixed" THEN 1 ELSE 0, 1>>>>
        \o <<<<synergy, 100>>>>

\* build_feature_matrix with the dynamic factors evaluated for each competitor anew,
\* the returned ones being those of the first evaluation
BuildWithFactorsPerDriver(drivers, r, weather_draws, noise) ==
    [features |-> [i \in DOMAIN drivers |->
                      FeatureVector(drivers[i], Get(track_characteristics, r, EmptyDict),
                                    get_historical_performance(drivers[i], r, noise[i]),
                                    calculate_dynamic_factors(r, weather_draws[i]))],
     driver_names |-> drivers,
     dynamic_factors |-> calculate_dynamic_factors(r, weather_draws[1]),
     dynamic_evaluations |-> 1 + Len(drivers)]

\* build_feature_matrix: weather_draws[i] is what the i-th evaluation of
\* calculate_dynamic_factors in the call draws, noise[i] the draws for competitor i;
\* dynamic_evaluations counts the evaluations of calculate_dynamic_factors
build_feature_matrix(drivers, r, weather_draws, noise) ==
    LET track_char == Get(track_characteristics, r, EmptyDict)
        dynamic_factors == calculate_dynamic_factors(r, weather_draws[1])
    IN  [features |-> [i \in DOMAIN drivers |->
                          FeatureVector(drivers[i], track_char,
                                        get_historical_performance(drivers[i], r, noise[i]),
                                        dynamic_factors)],
         driver_names |-> drivers,
         dynamic_factors |-> dynamic_factors,
         dynamic_evaluations |-> 1]

\* competitors explored: rated with a team and a synergy above and below 1, rated with
\* a team and no synergy, rated without a team, and not rated at all
FeatureDrivers == {"VER", "HAM", "BEA", "MAG", "XXX"}

\* competitors in one call
MaxDrivers == 2

DriverLists == UNION {[1..n -> FeatureDrivers] : n \in 0..MaxDrivers}

\* rounds explored: early, mid and late season, overtaking difficulty at, above and
\* below 0.7, the last round of the calendar and a round without track profile
FeatureRounds == {1, 3, 8, 12, 18, 24, MaxRound}

NoMatrix == [pending |-> TRUE]

InitFeatures ==
    /\ fpc = "idle"
    /\ fm_drivers = <<>>
    /\ fm_round = 1
    /\ fm_result = NoMatrix

\* one call of build_feature_matrix(drivers, year, round_num)
BuildFeatures ==
    /\ fpc = "idle"
    /\ \E drivers \in DriverLists, r \in FeatureRounds :
       \E w1, w2 \in PossibleWeathers(r), noise \in [DOMAIN drivers -> NoiseDraws] :
          /\ fm_drivers' = drivers
          /\ fm_round' = r
          /\ fm_result' = build_feature_matrix(
                              drivers, r,
                              [i \in 1..(Len(drivers) + 1) |-> IF i = 1 THEN w1 ELSE w2],
                              noise)
    /\ fpc' = "done"
    /\ UNCHANGED <<ovars, pvars, cvars, tvars, xvars>>

\* the caller has the matrix
FeaturesReturn ==
    /\ fpc = "done"
    /\ fpc' = "idle"
    /\ fm_drivers' = <<>>
    /\ fm_round' = 1
    /\ fm_result' = NoMatrix
    /\ UNCHANGED <<ovars, pvars, cvars, tvars, xvars>>

-----------------------------------------------------------------------------
(* train_models with _generate_training_data: the number of samples               *)

\* the n_samples arguments explored (the default is 5000: more iterations of the same
\* loop)
MaxSamples == 7

\* "Minimum required for training", line 575
MinTrainingRows == 100

\* the rows one iteration of the primary pass appends: one per selected competitor,
\* num_drivers = min(20, 23), in a fifth of the draws lowered by randint(1, 6) to no
\* less than 15; 0 when the iteration raised and was skipped (line 570)
PrimaryRows == {0} \cup 15..20

\* the rows one iteration of the fallback pass appends: one per competitor of
\* basic_drivers (10) until len(X) reaches the minimum; 0 when it raised (line 604)
FallbackRows(n) == {0, Min(10, MinTrainingRows - n)}

\* lines 486-508 on a dataset of n samples: fit raises on the empty array
FitFailures(n) == IF n = 0 THEN {"position"} ELSE TrainFailures \ {"generate"}

InitTraining ==
    /\ gpc = "idle"
    /\ g_iter = 0
    /\ g_limit = 0
    /\ n_rows = 0
    /\ fit_rows = -1
    /\ train_ok = "none"

\* train_models is called on the data of _generate_training_data(n_samples), which
\* starts its primary loop (train_models() itself passes the default n_samples)
TrainCall ==
    /\ gpc = "idle"
    /\ \E n_samples \in 0..MaxSamples : g_limit' = n_samples
    /\ gpc' = "primary"
    /\ g_iter' = 0
    /\ n_rows' = 0
    /\ fit_rows' = -1
    /\ train_ok' = "none"
    /\ UNCHANGED <<ovars, pvars, cvars, fvars, xvars>>

\* lines 527-571: one iteration of the primary pass
PrimaryIteration ==
    /\ gpc = "primary"
    /\ g_iter < g_limit
    /\ \E rows \in PrimaryRows : n_rows' = n_rows + rows
    /\ g_iter' = g_iter + 1
    /\ UNCHANGED <<gpc, g_limit, fit_rows, train_ok>>
    /\ UNCHANGED <<ovars, pvars, cvars, fvars, xvars>>

\* lines 574-580: the primary pass is over; fewer than the minimum starts the fallback
\* pass of 100 - len(X) iterations
PrimaryEnd ==
    /\ gpc = "primary"
    /\ g_iter = g_limit
    /\ IF n_rows < MinTrainingRows
       THEN gpc' = "fallback" /\ g_limit' = MinTrainingRows - n_rows
       ELSE gpc' = "fit" /\ UNCHANGED g_limit
    /\ g_iter' = 0
    /\ UNCHANGED <<n_rows, fit_rows, train_ok>>
    /\ UNCHANGED <<ovars, pvars, cvars, fvars, xvars>>

\* lines 580-606: one iteration of the fallback pass; both loops break at the minimum
FallbackIteration ==
    /\ gpc = "fallback"
    /\ g_iter < g_limit
    /\ \E rows \in FallbackRows(n_rows) :
        /\ n_rows' = n_rows + rows
        /\ IF n_rows + rows >= MinTrainingRows
           THEN gpc' = "fit" /\ g_iter' = 0
           ELSE gpc' = "fallback" /\ g_iter' = g_iter + 1
    /\ UNCHANGED <<g_limit, fit_rows, train_ok>>
    /\ UNCHANGED <<ovars, pvars, cvars, fvars, xvars>>

\* line 608: the fallback loop ran out; the arrays are returned as they are
FallbackEnd ==
    /\ gpc = "fallback"
    /\ g_iter = g_limit
    /\ gpc' = "fit"
    /\ g_iter' = 0
    /\ UNCHANGED <<g_limit, n_rows, fit_rows, train_ok>>
    /\ UNCHANGED <<ovars, pvars, cvars, fvars, xvars>>

\* lines 483-515: the regressors and the scaler are fitted on the returned arrays
FitModels ==
    /\ gpc = "fit"
    /\ \E fail \in FitFailures(n_rows) :
        /\ models' = train_models(models, fail)
        /\ train_ok' = (fail = "none")
        /\ fit_rows' = IF fail = "position" THEN -1 ELSE n_rows
    /\ gpc' = "done"
    /\ UNCHANGED <<g_iter, g_limit, n_rows>>
    /\ UNCHANGED <<ovars, cvars, fvars, ppc, p_round, outcome, xvars>>

\* the caller has the return value
TrainReturn ==
    /\ gpc = "done"
    /\ gpc' = "idle"
    /\ UNCHANGED <<g_iter, g_limit, n_rows, fit_rows, train_ok>>
    /\ UNCHANGED <<ovars, pvars, cvars, fvars, xvars>>

-----------------------------------------------------------------------------
(* get_historical_performance for competitors of any rating                      *)

\* the rating entries explored, and the competitor without entry
RatingEntries ==
    {[skill |-> s, qualifying |-> q, race_craft |-> c] :
        s \in {70, 90}, q \in {60, 95}, c \in {60, 95}} \cup {EmptyDict}

\* rounds explored: overtaking difficulty 0.6, exactly 0.7, 0.95, and no track profile
HistoricalRounds == {1, 3, 8, MaxRound}

\* calls kept side by side
MaxHistoricalCalls == 2

InitHistorical == hist_calls = <<>>

\* get_historical_performance(driver, track_id) for a competitor whose entry of
\* driver_ratings is rating
HistoricalCall ==
    /\ Len(hist_calls) < MaxHistoricalCalls
    /\ \E rating \in RatingEntries, r \in HistoricalRounds, noise \in NoiseDraws :
          hist_calls' = Append(hist_calls,
              [rating |-> rating, track_id |-> r, noise |-> noise,
               result |-> HistoricalFrom(rating, Get(track_characteristics, r, EmptyDict),
                                         noise)])
    /\ UNCHANGED <<ovars, pvars, cvars, tvars, fvars, svars, rvars, gvars>>

\* the results are dropped
HistoricalForget ==
    /\ hist_calls # <<>>
    /\ hist_calls' = <<>>
    /\ UNCHANGED <<ovars, pvars, cvars, tvars, fvars, svars, rvars, gvars>>

-----------------------------------------------------------------------------
(* predict_race_outcome(2025, 1) under np.random.seed                            *)

\* the values a draw of the stream takes, in hundredths
Draws == {5, 50, 90}

\* the draws _generate_training_data takes from the stream (lines 529-561), scaled down
TrainingDraws == 2

\* the draws the get_historical_performance calls of one build_feature_matrix take
\* (lines 337 and 342 for each competitor), scaled down
HistoricalDraws == 1

\* a stream is long enough for one training and one inference
StreamLen == TrainingDraws + 2 + HistoricalDraws

\* the streams the seeds give
Streams == [1..StreamLen -> Draws]

\* the calls kept side by side
MaxSeededCalls == 2

\* the round of the calls
SeededRound == IntRound(1)

\* lines 367-376: the condition drawn from the stream at position pos, and the draws used
WeatherDraw(r, stream, pos) ==
    IF stream[pos] * 100 < TrackChar(r, "weather_variability", 50) * 30
    THEN [weather |-> IF stream[pos + 1] < 70 THEN "wet" ELSE "mixed", used |-> 2]
    ELSE [weather |-> "dry", used |-> 1]

\* lines 626-689 on fitted models: the dynamic factors and the feature matrix drawn
\* from the stream at position pos; the predictions are a function of the fitted
\* regressors and the matrix, which the historical noise stands for
SeededResult(rv, stream, pos) ==
    LET w == WeatherDraw(rv.value, stream, pos)
    IN  [path |-> "model",
         dynamic_factors |-> calculate_dynamic_factors(rv.value, w.weather),
         historical_noise |->
             [k \in 1..HistoricalDraws |-> stream[pos + w.used + k - 1]]]

\* the fallback ranking is fixed
SeededFallback == [path |-> "fallback", dynamic_factors |-> <<>>, historical_noise |-> <<>>]

\* the four regressors
Regressors ==
    {"position_model", "win_probability_model", "podium_probability_model",
     "points_probability_model"}

\* self.scaler.transform(features): the matrix as build_feature_matrix and
\* _generate_training_data give it is "raw"
ScalerTransform(features) == "scaled"

\* lines 483-505: each regressor that was fitted was handed X as generated
FitInputs(old, m) ==
    [g \in Regressors |-> IF m[g] = "fitted" THEN "raw" ELSE old[g]]

\* lines 632-638: features_scaled goes to the predict of each regressor
PredictInputs == [g \in Regressors |-> ScalerTransform("raw")]

InitSeeded ==
    /\ spc = "idle"
    /\ fit_input = [g \in Regressors |-> "none"]
    /\ predict_input = [g \in Regressors |-> "none"]
    /\ rng_stream = [k \in 1..StreamLen |-> 50]
    /\ rng_pos = 1
    /\ seeded_models = Untrained
    /\ seeded_calls = <<>>

\* np.random.seed(seed): the stream starts again at the seed's first draw
SeedRandom ==
    /\ spc = "idle"
    /\ Len(seeded_calls) < MaxSeededCalls
    /\ \E stream \in Streams : rng_stream' = stream
    /\ rng_pos' = 1
    /\ spc' = "seeded"
    /\ UNCHANGED <<seeded_models, seeded_calls, fit_input, predict_input>>
    /\ UNCHANGED <<ovars, pvars, cvars, tvars, fvars, hvars, rvars, gvars>>

\* lines 612-624: the call starts; an absent position_model starts training
SeededPredict ==
    /\ spc = "seeded"
    /\ spc' = IF seeded_models.position_model = "None" THEN "train" ELSE "infer"
    /\ UNCHANGED <<rng_stream, rng_pos, seeded_models, seeded_calls, fit_input, predict_input>>
    /\ UNCHANGED <<ovars, pvars, cvars, tvars, fvars, hvars, rvars, gvars>>

\* lines 623-624: train_models draws the training data from the stream and fits, or a
\* statement raises and the fallback ranking is returned
SeededTrain ==
    /\ spc = "train"
    /\ \E fail \in TrainFailures :
        /\ seeded_models' = train_models(seeded_models, fail)
        /\ fit_input' = FitInputs(fit_input, train_models(seeded_models, fail))
        /\ rng_pos' = IF fail = "generate" THEN rng_pos ELSE rng_pos + TrainingDraws
        /\ IF fail = "none"
           THEN spc' = "infer" /\ UNCHANGED seeded_calls
           ELSE /\ spc' = "idle"
                /\ seeded_calls' = Append(seeded_calls,
                       [seed |-> rng_stream, trained |-> TRUE, result |-> SeededFallback])
    /\ UNCHANGED <<rng_stream, predict_input>>
    /\ UNCHANGED <<ovars, pvars, cvars, tvars, fvars, hvars, rvars, gvars>>

\* lines 626-689: the features are drawn from the stream where it stands, and the
\* result is returned; the except branch returns the fallback ranking
SeededInfer ==
    /\ spc = "infer"
    /\ LET raises == InferenceRaises(SeededRound, seeded_models)
           result == IF raises THEN SeededFallback
                     ELSE SeededResult(SeededRound, rng_stream, rng_pos)
       IN  /\ seeded_calls' = Append(seeded_calls,
                  [seed |-> rng_stream, trained |-> rng_pos > 1, result |-> result])
           /\ rng_pos' = IF raises THEN rng_pos
                         ELSE rng_pos + WeatherDraw(SeededRound.value, rng_stream, rng_pos).used
                                      + HistoricalDraws
           /\ predict_input' = IF raises THEN predict_input ELSE PredictInputs
    /\ spc' = "idle"
    /\ UNCHANGED <<rng_stream, seeded_models, fit_input>>
    /\ UNCHANGED <<ovars, pvars, cvars, tvars, fvars, hvars, rvars, gvars>>

\* the caller drops the results it holds; the predictor stays as it is
SeededForget ==
    /\ spc = "idle"
    /\ seeded_calls # <<>>
    /\ seeded_calls' = <<>>
    /\ UNCHANGED <<spc, rng_stream, rng_pos, seeded_models, fit_input, predict_input>>
    /\ UNCHANGED <<ovars, pvars, cvars, tvars, fvars, hvars, rvars, gvars>>

-----------------------------------------------------------------------------
(* One primary iteration of _generate_training_data (lines 527-567)             *)

\* list(self.driver_ratings.keys())
all_drivers ==
    <<"VER", "LEC", "HAM", "RUS", "NOR", "PIA", "SAI", "ALO", "STR", "ALB", "OCO", "HUL",
      "TSU", "LAW", "GAS", "DOO", "MAG", "BOT", "ZHO", "ANT", "HAD", "COL", "BEA">>

\* lines 533-538: 20 competitors, or 15 to 19 of them
NumDrivers == 15..20

\* np.random.choice(all_drivers, size=num_drivers, replace=False): the subsets explored
\* are num_drivers successive competitors of the list from a starting place on
RaceDrivers(num_drivers, start) ==
    [i \in 1..num_drivers |-> all_drivers[((start + i - 2) % Len(all_drivers)) + 1]]

\* the starting places explored
RaceStarts == {1, 9}

\* np.random.randint(1, 25): the rounds explored
SampleRounds == {1, 8, 24}

\* the draws of np.random.normal(0, 0.15) of line 552 for the competitors of one race,
\* in ten-thousandths
ScoreNoise ==
    {[i \in 1..20 |-> 0],
     [i \in 1..20 |-> IF i % 2 = 0 THEN 1500 ELSE -1500],
     [i \in 1..20 |-> ((i % 3) - 1) * 3000]}

\* the draws of lines 559-561 explored, the same for every competitor of one race
ProbabilityNoise == {<<0, 0, 0>>, <<1000, -1500, 2000>>}

\* an element of a feature vector in ten-thousandths
TenThousandths(x) == (x[1] * 10000) \div x[2]

\* np.mean of elements of a feature vector, in ten-thousandths
Mean(elements) ==
    SumSeq([i \in DOMAIN elements |-> TenThousandths(elements[i])]) \div Len(elements)

\* int(a / b) truncates towards zero
IntOf(a, b) == IF a >= 0 THEN a \div b ELSE -((-a) \div b)

\* max(0, min(1, x)) in ten-thousandths
ClipUnit(x) == Max(0, Min(10000, x))

\* lines 546-567: the row appended for one feature vector; scores and probabilities
\* in ten-thousandths
SampleRow(feature_vector, num_drivers, noise, prob_noise) ==
    LET overall_elements == SubSeq(feature_vector, 1, 13)
        track_elements == SubSeq(feature_vector, 14, 21)
        overall_performance == Mean(overall_elements)
        track_suitability == Mean(track_elements)
        performance_score == (overall_performance * track_suitability) \div 10000
        final_score == performance_score + noise
        position == Max(1, Min(num_drivers,
                        IntOf((num_drivers + 1) * 10000 - final_score * num_drivers, 10000)))
        share == ((num_drivers + 1 - position) * 10000) \div num_drivers
    IN  [X |-> feature_vector,
         overall_elements |-> overall_elements,
         track_elements |-> track_elements,
         performance_score |-> performance_score,
         noise |-> noise,
         final_score |-> final_score,
         y_position |-> position,
         y_win_prob |-> ClipUnit((share * 8) \div 10 + prob_noise[1]),
         y_podium_prob |-> ClipUnit((share * 6) \div 10 + prob_noise[2]),
         y_points_prob |-> ClipUnit((share * 4) \div 10 + prob_noise[3])]

\* no race is sampled
NoRace == [sampled |-> FALSE]

InitSample == sample_race = NoRace

\* lines 527-567: one iteration of the primary loop that did not raise
SampleRace ==
    /\ sample_race = NoRace
    /\ \E num_drivers \in NumDrivers, start \in RaceStarts, r \in SampleRounds,
          weather \in Weathers, historical_noise \in NoiseDraws,
          noise \in ScoreNoise, prob_noise \in ProbabilityNoise :
          \E race_drivers \in {RaceDrivers(num_drivers, start)} :
          \E matrix \in {build_feature_matrix(
                             race_drivers, r,
                             [i \in 1..(num_drivers + 1) |-> weather],
                             [i \in 1..num_drivers |-> historical_noise])} :
             sample_race' =
                 [sampled |-> TRUE,
                  round_num |-> r,
                  race_drivers |-> race_drivers,
                  rows |-> [i \in 1..num_drivers |->
                               SampleRow(matrix.features[i], num_drivers,
                                         noise[i], prob_noise)]]
    /\ UNCHANGED <<ovars, pvars, cvars, tvars, fvars, hvars, svars, gvars>>

\* the loop goes on to its next iteration
SampleNext ==
    /\ sample_race # NoRace
    /\ sample_race' = NoRace
    /\ UNCHANGED <<ovars, pvars, cvars, tvars, fvars, hvars, svars, gvars>>

-----------------------------------------------------------------------------
(* The candidates of _generate_optimal_strategy for every round                  *)

\* no candidate is built
NoCandidate == [round_num |-> 0, total_laps |-> 0, strategy |-> NoStrategy]

InitCandidates == candidate = NoCandidate

\* lines 94-111 for round r: the dict of one iteration of the 1-stop loops
CandidateOneStop ==
    /\ candidate = NoCandidate
    /\ \E r \in Rounds :
       LET compounds == Compounds(track_types(r))
           laps == _estimate_race_length(r)
       IN  \E i1, i2 \in DOMAIN compounds, j \in -OneStopJitter..OneStopJitter :
              /\ compounds[i1] # compounds[i2]
              /\ candidate' =
                    [round_num |-> r, total_laps |-> laps,
                     strategy |-> OneStopStrategy(compounds[i1], compounds[i2], laps, j)]
    /\ UNCHANGED <<ovars, pvars, cvars, tvars, fvars, hvars, svars, rvars>>

\* lines 114-134 for round r: the dict of one iteration of the 2-stop loops
CandidateTwoStop ==
    /\ candidate = NoCandidate
    /\ \E r \in Rounds :
       LET compounds == Compounds(track_types(r))
           laps == _estimate_race_length(r)
       IN  \E i1, i2, i3 \in DOMAIN compounds, j1, j2 \in -TwoStopJitter..TwoStopJitter :
              candidate' =
                  [round_num |-> r, total_laps |-> laps,
                   strategy |-> TwoStopStrategy(compounds[i1], compounds[i2], compounds[i3],
                                                laps, j1, j2)]
    /\ UNCHANGED <<ovars, pvars, cvars, tvars, fvars, hvars, svars, rvars>>

\* the loop goes on to its next iteration
CandidateNext ==
    /\ candidate # NoCandidate
    /\ candidate' = NoCandidate
    /\ UNCHANGED <<ovars, pvars, cvars, tvars, fvars, hvars, svars, rvars>>

-----------------------------------------------------------------------------
(* The specifications: the optimizer and the predictor are separate objects that   *)
(* share no state; each is explored on its own                                     *)

Init == InitOptimizer /\ InitPredictor /\ InitThreads /\ InitTraining
        /\ InitFeatures /\ InitHistorical /\ InitSeeded /\ InitSample /\ InitCandidates

\* calls of StrategyOptimizer.optimize_pit_strategy
Next ==
    \/ OptimizeStart
    \/ OneStopIteration
    \/ TwoStopIteration
    \/ OptimizeReturn
    \/ OptimizeDone

Spec == Init /\ [][Next]_vars

\* calls of EnhancedRacePredictor.predict_race_outcome
NextPredict ==
    \/ PredictCall
    \/ TrainModels
    \/ Infer
    \/ PredictDone

SpecPredictor == Init /\ [][NextPredict]_vars

\* calls of predict_race_outcome from the request threads
NextThreads ==
    \/ Enter
    \/ Train
    \/ InferInThread
    \/ Return

SpecThreads == Init /\ [][NextThreads]_vars

\* explicit calls of train_models()
NextTraining ==
    \/ TrainCall
    \/ PrimaryIteration
    \/ PrimaryEnd
    \/ FallbackIteration
    \/ FallbackEnd
    \/ FitModels
    \/ TrainReturn

SpecTraining == Init /\ [][NextTraining]_vars

\* calls of build_feature_matrix
NextFeatures ==
    \/ BuildFeatures
    \/ FeaturesReturn

SpecFeatures == Init /\ [][NextFeatures]_vars

\* calls of get_historical_performance
NextHistorical ==
    \/ HistoricalCall
    \/ HistoricalForget

SpecHistorical == Init /\ [][NextHistorical]_vars

\* seeded calls of predict_race_outcome(2025, 1) on one predictor
NextSeeded ==
    \/ SeedRandom
    \/ SeededPredict
    \/ SeededTrain
    \/ SeededInfer
    \/ SeededForget

SpecSeeded == Init /\ [][NextSeeded]_vars

\* primary iterations of _generate_training_data
NextSample ==
    \/ SampleRace
    \/ SampleNext

SpecSample == Init /\ [][NextSample]_vars

\* the candidates of _generate_optimal_strategy, round by round
NextCandidates ==
    \/ CandidateOneStop
    \/ CandidateTwoStop
    \/ CandidateNext

SpecCandidates == Init /\ [][NextCandidates]_vars

-----------------------------------------------------------------------------
(* The strategy search with its history variable cand, for one round *)

TracedCalls == {<<1, Unavailable>>}

TracedStart == Start(TracedCalls, {TRUE})

TracedOneStop == OneStop(TRUE)

TracedTwoStop == TwoStop(TRUE)

NextTraced ==
    \/ TracedStart
    \/ TracedOneStop
    \/ TracedTwoStop
    \/ OptimizeReturn
    \/ OptimizeDone

SpecTraced == Init /\ [][NextTraced]_vars

-----------------------------------------------------------------------------
(* Properties of optimize_pit_strategy *)

\* the call returned from the try block (no exception was raised)
Returned == opc = "done" /\ round_hashable

\* the call returned from the except block
Failed == opc = "done" /\ ~round_hashable

StintCompounds(strategy) == {strategy.stints[i].compound : i \in DOMAIN strategy.stints}

StintLaps(strategy) == SumSeq([i \in DOMAIN strategy.stints |-> strategy.stints[i].laps])

\* C1: the optimal strategy returned by the search uses at least two distinct compounds
C1_TwoDistinctCompounds ==
    Returned => Cardinality(StintCompounds(response.optimal_strategy)) >= 2

\* C2: the stint lap counts of the strategy returned by _generate_optimal_strategy sum
\* to total_laps; so do those of the strategy it builds when no candidate was enumerated
C2_StintLapsSumToTotal ==
    /\ Returned => StintLaps(response.optimal_strategy) = total_laps
    /\ opc = "select" =>
         StintLaps(BestStrategy(0, NoStrategy, total_laps, base_lap_time)) = total_laps

C2_Witness ==
    /\ Returned
    /\ response.optimal_strategy.stops = 2
    /\ StintLaps(response.optimal_strategy) = _estimate_race_length(round_num)

\* C3: every append leaves in best an element no slower than the appended one; best
\* changes only to the appended element and only when that one is strictly faster, so
\* best is the first of the fastest elements enumerated; and it is the one returned
C3_FirstMinimumStep ==
    /\ (opc \in {"one_stop", "two_stop"} /\ n_strategies' = n_strategies + 1) =>
         /\ best'.time <= cand'.time
         /\ n_strategies = 0 => best' = cand'
         /\ n_strategies > 0 =>
              /\ best' \in {best, cand'}
              /\ best' # best => cand'.time < best.time
              /\ best'.time <= best.time
    /\ (opc = "select" /\ opc' = "done") =>
         /\ response'.optimal_strategy.stints = best.strategy.stints
         /\ response'.optimal_strategy.pit_laps = best.strategy.pit_laps
         /\ response'.optimal_strategy.total_time = best.time

C3_FirstMinimum == [][C3_FirstMinimumStep]_vars

\* a later element ties with the minimum and the earlier one is kept
C3_Witness ==
    /\ opc \in {"one_stop", "two_stop"}
    /\ n_strategies > 1
    /\ cand.time = best.time
    /\ cand # best

\* the claimed total: over the stints, laps * (base + pace delta) plus the rate times
\* the sum 0 + 1 + ... + (laps - 1) of the lap indices, plus the pit loss of every stop
ClaimedStintTime(stint, base) ==
    stint.laps * (base + tire_performance[stint.compound].pace_advantage)
        + tire_performance[stint.compound].degradation_rate
            * ((stint.laps * (stint.laps - 1)) \div 2)

ClaimedTime(strategy, base) ==
    SumSeq([i \in DOMAIN strategy.stints |-> ClaimedStintTime(strategy.stints[i], base)])
        + strategy.stops * 2500

\* C4: the time of a candidate is the lap-by-lap sum plus stops * 25 s, and the returned
\* strategy stores that time and the penalty stops * 25 s
C4_StrategyTime ==
    /\ n_strategies > 0 => best.time = ClaimedTime(best.strategy, base_lap_time)
    /\ Returned =>
         /\ response.optimal_strategy.total_time
              = ClaimedTime(response.optimal_strategy, base_lap_time)
         /\ response.optimal_strategy.time_penalty = response.optimal_strategy.stops * 2500

C4_Witness ==
    /\ Returned
    /\ response.optimal_strategy.stops = 1
    /\ response.optimal_strategy.total_time > 58 * 8500

Clip(x, lo, hi) == Max(lo, Min(x, hi))

\* C5: time_savings lies within [-30 s, 30 s]; with actual data it is the clipped
\* difference actual total time - optimal total time
C5_SavingsClipped ==
    opc = "done" =>
        /\ response.time_savings >= -3000
        /\ response.time_savings <= 3000
        /\ (Returned /\ "error" \notin DOMAIN response.actual_strategy) =>
             response.time_savings =
                Clip(response.actual_strategy.total_time
                        - response.optimal_strategy.total_time, -3000, 3000)

\* C6: a call in which a step raised returns the fixed fallback: one stop, MEDIUM then
\* HARD, an error in actual_strategy, time_savings 0
C6_FallbackOnException ==
    Failed =>
        /\ response.optimal_strategy.stops = 1
        /\ Len(response.optimal_strategy.stints) = 2
        /\ response.optimal_strategy.stints[1].compound = "MEDIUM"
        /\ response.optimal_strategy.stints[2].compound = "HARD"
        /\ "error" \in DOMAIN response.actual_strategy
        /\ response.time_savings = 0

C6_Witness == Failed /\ response # NoResponse

\* the session holds no records for the requested year, round and competitor
NoRecords == ~session.loads \/ session.driver_laps = << >>

\* C7: with no telemetry records the response carries an error in actual_strategy and
\* the optimal strategy is the populated result of the search
C7_NoRecordsResponse ==
    /\ (opc \in {"one_stop", "two_stop", "select"} /\ NoRecords) =>
          DOMAIN actual_strategy = {"error"}
    /\ (Returned /\ NoRecords) =>
          /\ "error" \in DOMAIN response.actual_strategy
          /\ response.optimal_strategy
               = BestStrategy(n_strategies, best, total_laps, base_lap_time)
          /\ n_strategies > 0
          /\ response.optimal_strategy.stops \in {1, 2}
          /\ Len(response.optimal_strategy.stints) = response.optimal_strategy.stops + 1
          /\ Len(response.optimal_strategy.pit_laps) = response.optimal_strategy.stops
          /\ response.optimal_strategy.total_time > 0

C7_Witness ==
    /\ Returned
    /\ session.loads
    /\ session.driver_laps = << >>
    /\ response.optimal_strategy.stops = 2

\* C8: every response holds optimal_strategy, actual_strategy, time_savings,
\* available_compounds and track_conditions
C8_ResponseFields ==
    opc = "done" =>
        {"optimal_strategy", "actual_strategy", "time_savings",
         "available_compounds", "track_conditions"} \subseteq DOMAIN response

-----------------------------------------------------------------------------
(* Claims about predict_race_outcome *)

\* the call has ended and handed a dict to its caller
Answered == ppc = "done" /\ ~outcome.raised

\* C9: for every round value the caller passes, predict_race_outcome never propagates
\* an exception, and whenever training or inference fails it returns the fixed
\* fallback ranking (winner VER with probability 0.25, confidence 0.6)
C9_NeverPropagates ==
    ppc = "done" =>
        /\ ~outcome.raised
        /\ outcome.path = "fallback" =>
              /\ outcome.result.winner_prediction = Entry("VER", 25)
              /\ outcome.result.model_confidence = <<60, 100>>

ResponseKeys ==
    {"race_info", "winner_prediction", "podium_predictions", "points_predictions",
     "dynamic_factors", "model_confidence"}

\* C10 as stated: every response, on the model path and on the fallback path, holds
\* race_info, a winner, a podium list of 8, a points list of 10, full_predictions,
\* dynamic_factors and a confidence
C10_AllFieldsOnEveryPath ==
    Answered =>
        /\ ResponseKeys \cup {"full_predictions"} \subseteq DOMAIN outcome.result
        /\ Len(outcome.result.podium_predictions) = 8
        /\ Len(outcome.result.points_predictions) = 10

\* C10 amended: every response holds race_info, a winner, a podium list of exactly 8,
\* a points list of exactly 10, dynamic_factors and a confidence; full_predictions is
\* there on the model path and absent on the fallback path
C10_ResponseShape ==
    Answered =>
        /\ ResponseKeys \subseteq DOMAIN outcome.result
        /\ Len(outcome.result.podium_predictions) = 8
        /\ Len(outcome.result.points_predictions) = 10
        /\ ("full_predictions" \in DOMAIN outcome.result) <=> (outcome.path = "model")

\* a response of the model path: the lists were cut from the 20 sorted records
C10_Witness ==
    /\ Answered
    /\ outcome.path = "model"
    /\ Len(outcome.result.full_predictions) = Len(active_drivers)
    /\ Len(outcome.result.podium_predictions) = 8

-----------------------------------------------------------------------------
(* Claims about the records of the model path *)

\* the call has ended with the dict of the try block
ModelAnswer == Answered /\ outcome.path = "model"

Probabilities == {"win_probability", "podium_probability", "points_probability"}

\* C11: on every model-path return for a round in 1..24, full_predictions holds
\* exactly one record per competitor of the roster, none missing and none twice, and
\* every win, podium and points probability lies in [0, 1] whatever the regressors
\* returned
C11_OneRecordPerCompetitor ==
    (ModelAnswer /\ p_round.value \in 1..24) =>
        LET records == outcome.result.full_predictions
        IN  /\ Len(records) = Len(active_drivers)
            /\ \A k \in DOMAIN active_drivers :
                  Cardinality({i \in DOMAIN records :
                                  records[i].driver = active_drivers[k]}) = 1
            /\ \A i \in DOMAIN records, f \in Probabilities :
                  records[i][f] >= 0 /\ records[i][f] <= 100

\* a return whose records hold both ends of [0, 1], with two records sharing the same
\* predicted position
C11_Witness ==
    /\ ModelAnswer
    /\ p_round.value \in 1..24
    /\ LET records == outcome.result.full_predictions
       IN  /\ \E i \in DOMAIN records : records[i].win_probability = 0
           /\ \E i \in DOMAIN records : records[i].podium_probability = 100
           /\ \E i, j \in DOMAIN records :
                 i # j /\ records[i].predicted_position = records[j].predicted_position

-----------------------------------------------------------------------------
(* Claims about the confidence *)

\* the variance of the win probabilities as the mean squared distance from the mean:
\* sum((n * p - sum(p))^2) / n^3, by numerator and denominator (hundredths squared)
WinVariance(records) ==
    LET n == Len(records)
        s == SumSeq([i \in DOMAIN records |-> records[i].win_probability])
    IN  <<SumSeq([i \in DOMAIN records |->
                     (n * records[i].win_probability - s)
                         * (n * records[i].win_probability - s)]),
          n * n * n>>

\* 1 - 4 * variance clipped to [0, 1], over the denominator n^3 * 100^2
ClaimedConfidence(records) ==
    LET v == WinVariance(records)
        den == v[2] * 10000
    IN  <<Max(0, Min(den, den - 4 * v[1])), den>>

\* the fractions x and y are the same number, the denominator of y being a multiple
\* of that of x
SameFraction(x, y) ==
    /\ y[2] % x[2] = 0
    /\ x[1] * (y[2] \div x[2]) = y[1]

\* C12: the confidence of every response lies in [0, 1]; on the model path it is
\* 1 - 4 * variance(win probabilities of all records) clipped to [0, 1]
C12_Confidence ==
    Answered =>
        LET c == outcome.result.model_confidence
        IN  /\ c[2] > 0 /\ c[1] >= 0 /\ c[1] <= c[2]
            /\ outcome.path = "model" =>
                  SameFraction(c, ClaimedConfidence(outcome.result.full_predictions))

\* a model-path response whose win probabilities differ, its confidence below 1
C12_Witness ==
    /\ ModelAnswer
    /\ WinVariance(outcome.result.full_predictions)[1] > 0
    /\ outcome.result.model_confidence[1] < outcome.result.model_confidence[2]
    /\ outcome.result.model_confidence[1] > 0

-----------------------------------------------------------------------------
(* Claims about the winner and the two lists *)

\* seq is ordered by field, non-decreasing or (desc) non-increasing
Ordered(seq, field, desc) ==
    \A i \in 1..(Len(seq) - 1) :
        IF desc THEN seq[i][field] >= seq[i + 1][field]
        ELSE seq[i][field] <= seq[i + 1][field]

\* C13: on the model path the winner is a competitor of full_predictions whose win
\* probability is at least that of every record, whatever its predicted position; the
\* response holds the winner next to full_predictions in the order of the predicted
\* positions
C13_WinnerHasMaxWinProbability ==
    ModelAnswer =>
        LET records == outcome.result.full_predictions
            winner == outcome.result.winner_prediction
        IN  /\ \E i \in DOMAIN records :
                  /\ records[i].driver = winner.driver
                  /\ records[i].win_probability = winner.probability
            /\ \A i \in DOMAIN records : records[i].win_probability <= winner.probability
            /\ Ordered(records, "predicted_position", FALSE)

\* the winner is not the competitor with the lowest predicted position
C13_Witness ==
    /\ ModelAnswer
    /\ LET records == outcome.result.full_predictions
       IN  /\ records[1].driver # outcome.result.winner_prediction.driver
           /\ records[1].predicted_position < records[2].predicted_position
           /\ records[1].win_probability < outcome.result.winner_prediction.probability

\* list holds the n records of highest probability field, as driver and probability,
\* in non-increasing order, each competitor once
TopOf(list, records, field, n) ==
    /\ Len(list) = n
    /\ Ordered(list, "probability", TRUE)
    /\ \A k \in DOMAIN list :
          \E i \in DOMAIN records :
              records[i].driver = list[k].driver /\ records[i][field] = list[k].probability
    /\ \A k, l \in DOMAIN list : k # l => list[k].driver # list[l].driver
    /\ \A i \in DOMAIN records :
          (\A k \in DOMAIN list : list[k].driver # records[i].driver) =>
              \A k \in DOMAIN list : records[i][field] <= list[k].probability

\* C14: on the model path the podium list is the 8 records of highest podium
\* probability and the points list the 10 records of highest points probability, each
\* in non-increasing order: no record outside a list has a strictly higher probability
\* than one inside it
C14_TopLists ==
    ModelAnswer =>
        /\ TopOf(outcome.result.podium_predictions, outcome.result.full_predictions,
                 "podium_probability", 8)
        /\ TopOf(outcome.result.points_predictions, outcome.result.full_predictions,
                 "points_probability", 10)

\* both lists differ from the order of the predicted positions, and a competitor left
\* out of the points list has a strictly lower probability than its last entry
C14_Witness ==
    /\ ModelAnswer
    /\ LET records == outcome.result.full_predictions
           podium == outcome.result.podium_predictions
           points == outcome.result.points_predictions
       IN  /\ podium[1].driver # records[1].driver
           /\ points[1].driver # records[1].driver
           /\ podium[1].probability > podium[8].probability
           /\ \E i \in DOMAIN records :
                 /\ \A k \in DOMAIN points : points[k].driver # records[i].driver
                 /\ records[i].points_probability < points[10].probability

-----------------------------------------------------------------------------
(* Claims about the trained state *)

\* C15: when callers invoke predict_race_outcome concurrently on the untrained
\* predictor, first-use training is serialized and train_models runs at most once,
\* under every interleaving (runs that fail are left out of the count)
C15_TrainsAtMostOnce == train_runs - train_failures <= 1

\* training has succeeded: the four regressors and the scaler are fitted
Trained(m) ==
    /\ m.position_model = "fitted"
    /\ m.win_probability_model = "fitted"
    /\ m.podium_probability_model = "fitted"
    /\ m.points_probability_model = "fitted"
    /\ m.scaler = "fitted"

C16_TrainedStateStaysStep ==
    /\ ppc' = "train" => (ppc = "idle" /\ models.position_model = "None")
    /\ models' # models => ppc = "train"
    /\ Trained(models) => models' = models

\* C16: in a sequential series of predict_race_outcome calls training is started only
\* by a call that finds position_model absent, only the training step changes the
\* regressors and the scaler, and once training has succeeded no later step of any
\* call changes them: trained never goes back to untrained
C16_TrainedStateStays == [][C16_TrainedStateStaysStep]_vars

\* a trained predictor between two calls
C16_Witness == ppc = "idle" /\ Trained(models) /\ outcome = NoCall

\* C17: when generation yields fewer than 100 samples after the primary and the
\* fallback pass, training fails hard: _generate_training_data hands no under-sized
\* dataset to the fits, and train_models neither fits the regressors on fewer than 100
\* samples nor returns True for them
C17_UndersizedDataFails ==
    /\ gpc = "fit" => n_rows >= MinTrainingRows
    /\ gpc = "done" =>
          /\ fit_rows = -1 \/ fit_rows >= MinTrainingRows
          /\ train_ok = TRUE => n_rows >= MinTrainingRows

-----------------------------------------------------------------------------
(* Claims about build_feature_matrix *)

\* build_feature_matrix has returned a matrix
Built == fpc = "done"

\* the eight sensitivities of a track profile
ProfileKeys == TrackKeys \o <<"red_flag_probability">>

\* C18: every competitor gets a vector of the same fixed length and order: 9
\* competitor ratings, 4 team ratings, the 8 sensitivities of the track profile, the
\* red-flag probability among them, 4 historical scalars, 2 dynamic scalars, 2 weather
\* flags and 1 synergy scalar, 30 elements
C18_ThirtyFeatures ==
    Built =>
        \A i \in DOMAIN fm_result.features :
            LET v == fm_result.features[i]
            IN  /\ Len(v) = 9 + 4 + 8 + 4 + 2 + 2 + 1
                /\ fm_round \in DOMAIN track_characteristics =>
                      \A k \in DOMAIN ProfileKeys :
                          v[13 + k] = <<track_characteristics[fm_round][ProfileKeys[k]], 100>>

Neutral == <<75, 100>>

\* C19: for a competitor without rating entry, without team or without synergy entry,
\* and for a round without track profile, build_feature_matrix returns its matrix:
\* every missing competitor or team rating is the neutral 75/100 and a missing synergy
\* is 1.0
C19_NeutralDefaults ==
    Built =>
        /\ Len(fm_result.features) = Len(fm_drivers)
        /\ fm_result.driver_names = fm_drivers
        /\ \A i \in DOMAIN fm_drivers :
              LET v == fm_result.features[i]
                  d == fm_drivers[i]
              IN  /\ d \notin DOMAIN driver_ratings =>
                        \A k \in 1..9 : v[k] = Neutral
                  /\ d \notin DOMAIN driver_team_mapping =>
                        \A k \in 10..13 : v[k] = Neutral
                  /\ (\A p \in DOMAIN driver_team_synergy : p[1] # d) =>
                        v[Len(v)] = <<100, 100>>

\* a matrix for a round without track profile, with a competitor that has no rating
\* and one that is rated and has no team
C19_Witness ==
    /\ Built
    /\ fm_round \notin DOMAIN track_characteristics
    /\ \E i, j \in DOMAIN fm_drivers :
          /\ fm_drivers[i] \notin DOMAIN driver_ratings
          /\ fm_drivers[j] \in DOMAIN driver_ratings
          /\ fm_drivers[j] \notin DOMAIN driver_team_mapping
          /\ fm_result.features[i][1] = Neutral
          /\ fm_result.features[j][10] = Neutral
          /\ fm_result.features[j][1] # Neutral

\* the four elements of a vector taken from the dynamic factors: season progress,
\* championship pressure, wet flag, mixed flag (the synergy scalar is the last element)
DynamicPart(v) == SubSeq(v, Len(v) - 4, Len(v) - 1)

\* C20: one call of build_feature_matrix evaluates calculate_dynamic_factors exactly
\* once: the season-progress, championship-pressure, wet-flag and mixed-flag elements
\* are the same in the vectors of all competitors of the call, and they are those of
\* the returned dynamic_factors
C20_DynamicFactorsOncePerCall ==
    Built =>
        /\ fm_result.dynamic_evaluations = 1
        /\ \A i \in DOMAIN fm_result.features :
              DynamicPart(fm_result.features[i]) =
                  <<fm_result.dynamic_factors.season_progress,
                    <<fm_result.dynamic_factors.championship_pressure, 100>>,
                    <<IF fm_result.dynamic_factors.weather_condition = "wet" THEN 1 ELSE 0, 1>>,
                    <<IF fm_result.dynamic_factors.weather_condition = "mixed" THEN 1 ELSE 0, 1>>>>
        /\ \A i, j \in DOMAIN fm_result.features :
              DynamicPart(fm_result.features[i]) = DynamicPart(fm_result.features[j])

\* a matrix of two different competitors for a wet race
C20_Witness ==
    /\ Built
    /\ Len(fm_result.features) = 2
    /\ fm_drivers[1] # fm_drivers[2]
    /\ fm_result.features[1] # fm_result.features[2]
    /\ fm_result.dynamic_factors.weather_condition = "wet"
    /\ DynamicPart(fm_result.features[2])[3] = <<1, 1>>

-----------------------------------------------------------------------------
(* Claims about get_historical_performance and calculate_dynamic_factors *)

\* the overtaking difficulty of the round exceeds 0.7
HardToOvertake(r) ==
    r \in DOMAIN track_characteristics /\ track_characteristics[r].overtaking_difficulty > 70

\* the entry's rating, 75 without entry
RatingIn(call, key) == IF call.rating = EmptyDict THEN 75 ELSE call.rating[key]

\* two calls for the same round with the same raw skill and the same noise
Comparable(a, b) ==
    /\ a.track_id = b.track_id
    /\ a.noise = b.noise
    /\ RatingIn(a, "skill") = RatingIn(b, "skill")

\* C21: at a round whose overtaking difficulty exceeds 0.7 the estimate depends on raw
\* skill and qualifying, at every other round (0.7 exactly, below, unknown round) on
\* raw skill and race craft; at such a hard round, with equal skill and noise, high
\* qualifying with low race craft gets an average position no worse than the reverse
C21_QualifyingAtHardRounds ==
    \A i, j \in DOMAIN hist_calls :
        LET a == hist_calls[i]
            b == hist_calls[j]
            key == IF HardToOvertake(a.track_id) THEN "qualifying" ELSE "race_craft"
        IN  Comparable(a, b) =>
                /\ RatingIn(a, key) = RatingIn(b, key) =>
                      a.result.avg_position = b.result.avg_position
                /\ RatingIn(a, key) > RatingIn(b, key) =>
                      a.result.avg_position <= b.result.avg_position

\* round 8: the competitor of high qualifying and low race craft is strictly ahead of
\* the competitor of the same skill with the reverse skew
C21_Witness ==
    /\ Len(hist_calls) = 2
    /\ hist_calls[1].track_id = 8
    /\ Comparable(hist_calls[1], hist_calls[2])
    /\ hist_calls[1].rating # EmptyDict /\ hist_calls[2].rating # EmptyDict
    /\ hist_calls[1].rating.qualifying > hist_calls[1].rating.race_craft
    /\ hist_calls[2].rating.qualifying = hist_calls[1].rating.race_craft
    /\ hist_calls[2].rating.race_craft = hist_calls[1].rating.qualifying
    /\ hist_calls[1].result.avg_position < hist_calls[2].result.avg_position

\* C22: for every round number, the dynamic factors of a model-path answer hold
\* season_progress = round / 24, championship_pressure 1.2 beyond round 15, 1.0 for
\* rounds 11 to 15 and 0.8 otherwise, a weather condition that is one of dry, wet and
\* mixed, and the safety-car probability of the round's track profile
C22_DynamicFactors ==
    ModelAnswer =>
        LET r == p_round.value
            factors == outcome.result.dynamic_factors
        IN  /\ factors.season_progress = <<r, 24>>
            /\ r > 15 => factors.championship_pressure = 120
            /\ r \in 11..15 => factors.championship_pressure = 100
            /\ r < 11 => factors.championship_pressure = 80
            /\ factors.weather_condition \in Weathers
            /\ r \in DOMAIN track_characteristics =>
                  factors.safety_car_probability =
                      track_characteristics[r].safety_car_probability

\* a mid-season answer at the upper end of the 1.0 band, in the wet
C22_Witness ==
    /\ ModelAnswer
    /\ p_round.value = 15
    /\ outcome.result.dynamic_factors.championship_pressure = 100
    /\ outcome.result.dynamic_factors.weather_condition = "wet"
    /\ outcome.result.dynamic_factors.safety_car_probability =
          track_characteristics[15].safety_car_probability

-----------------------------------------------------------------------------
(* Claims about seeded calls and the trained state *)

\* C23: two calls of predict_race_outcome(2025, 1) on the same predictor without a
\* retrain in between, each seeded identically, return identical results, also when
\* the first of the two is the call that trained (calls whose training or inference
\* raised are left aside)
C23_SeededCallsAgree ==
    \A i, j \in DOMAIN seeded_calls :
        (/\ seeded_calls[i].seed = seeded_calls[j].seed
         /\ seeded_calls[i].result.path = "model"
         /\ seeded_calls[j].result.path = "model") =>
            seeded_calls[i].result = seeded_calls[j].result

\* train_models returned: the call goes on to inference after True, and returns the
\* fallback ranking after False
C24_TrainingStep ==
    (ppc = "train" /\ ppc' # "train") =>
        IF ppc' = "infer"
        THEN Trained(models')
        ELSE models'.position_model = "None"

\* C24: the trained state is all-or-nothing: after any call of train_models either it
\* reported success and the four regressors and the scaler are fitted, or it reported
\* failure and the position model that predict_race_outcome tests is absent, so that
\* the next request trains again
C24_AllOrNothing == [][C24_TrainingStep]_vars

-----------------------------------------------------------------------------
(* Claims about the historical elements and the training samples *)

\* the places of avg_position / 20, avg_grid / 20, podiums / 10 and wins / 5 in a
\* feature vector
HistoricalPlaces == 21..24

\* C25: for every competitor, round and noise, each of the four historical elements
\* of the feature vector (average position / 20, average grid / 20, podiums / 10,
\* wins / 5) lies in [0, 1]
C25_HistoricalInUnitInterval ==
    Built =>
        \A i \in DOMAIN fm_result.features, k \in HistoricalPlaces :
            LET x == fm_result.features[i][k]
            IN  0 <= x[1] /\ x[1] <= x[2]

\* a race has been sampled and its rows appended
Sampled == sample_race # NoRace

\* C26: in the primary pass the finishing positions of the competitors of one sampled
\* race are the inverse ranks of their scores within the race: pairwise distinct,
\* exactly 1..n for n competitors, and a higher score never gets a numerically
\* higher position
C26_PositionsAreRanks ==
    Sampled =>
        LET rows == sample_race.rows
        IN  /\ \A i, j \in DOMAIN rows : i # j => rows[i].y_position # rows[j].y_position
            /\ {rows[i].y_position : i \in DOMAIN rows} = 1..Len(rows)
            /\ \A i, j \in DOMAIN rows :
                  rows[i].final_score > rows[j].final_score =>
                      rows[i].y_position <= rows[j].y_position

\* C27: the performance score of a sample is the mean of the 13 competitor and team
\* elements of its feature vector times the mean of its track-profile elements only,
\* plus noise; no historical, dynamic or synergy element enters either mean and no
\* track-profile element is left out
C27_ScoreFromRatingsAndTrack ==
    Sampled =>
        \A i \in DOMAIN sample_race.rows :
            LET row == sample_race.rows[i]
                profile == track_characteristics[sample_race.round_num]
            IN  /\ row.overall_elements = SubSeq(row.X, 1, 13)
                /\ row.track_elements =
                      [k \in DOMAIN TrackKeys |-> <<profile[TrackKeys[k]], 100>>]
                /\ row.final_score =
                      (Mean(row.overall_elements) * Mean(row.track_elements)) \div 10000
                          + row.noise

-----------------------------------------------------------------------------
(* Claims about training under concurrent requests and the representation fitted *)

\* thread t runs its inference while another thread is inside train_models, and no
\* statement of any training has raised
C28_InferenceStep ==
    \A t \in Threads :
        (/\ threads[t].pc = "infer"
         /\ threads'[t].pc = "done"
         /\ train_failures = 0
         /\ \E u \in Threads \ {t} : threads[u].pc = "train") =>
            /\ Trained(models)
            /\ threads'[t].path = "model"

\* C28: under every interleaving of a thread in train_models with a thread in
\* predict_race_outcome on the same predictor, the predicting thread never runs
\* inference on a partially built state (position model assigned, another regressor
\* or the scaler not yet fitted), and does not return the fallback ranking merely
\* because training is in progress
C28_NoInferenceOnPartialState == [][C28_InferenceStep]_vars

\* C29: the four regressors are evaluated at inference on feature vectors in the
\* representation they were fitted on: scaler-transformed features at predict mean
\* scaler-transformed features at fit, and raw means raw
C29_SameRepresentation ==
    \A g \in Regressors :
        predict_input[g] # "none" => predict_input[g] = fit_input[g]

-----------------------------------------------------------------------------
(* Claims about the candidates of _generate_optimal_strategy *)

\* a candidate has been built
HasCandidate == candidate # NoCandidate

\* the laps at which stint k of strategy s starts and ends: the race start, the pit
\* laps, the race end
Bounds(s, laps) == <<0>> \o s.pit_laps \o <<laps>>

\* C30: for every round 1..24 and for an unknown round (60 laps), and for every
\* jitter, every candidate of _generate_optimal_strategy has only stints of at least
\* one lap, its pit laps are strictly increasing and lie in 1..L-1, and the laps of
\* each stint are the distance between the pit laps (or race start and end) that
\* bound it
C30_WellFormedCandidates ==
    HasCandidate =>
        LET s == candidate.strategy
            L == candidate.total_laps
        IN  /\ L = _estimate_race_length(candidate.round_num)
            /\ Len(s.pit_laps) = s.stops
            /\ Len(s.stints) = s.stops + 1
            /\ \A k \in DOMAIN s.stints : s.stints[k].laps >= 1
            /\ \A k \in DOMAIN s.pit_laps : s.pit_laps[k] \in 1..(L - 1)
            /\ \A k \in DOMAIN s.pit_laps :
                  k > 1 => s.pit_laps[k - 1] < s.pit_laps[k]
            /\ \A k \in DOMAIN s.stints :
                  s.stints[k].laps = Bounds(s, L)[k + 1] - Bounds(s, L)[k]

\* a 2-stop candidate of the shortest race (44 laps) with the latest first and the
\* earliest second pit lap, which leaves a middle stint of 9 laps
C30_Witness ==
    /\ HasCandidate
    /\ candidate.round_num = 13
    /\ candidate.total_laps = 44
    /\ candidate.strategy.stops = 2
    /\ candidate.strategy.pit_laps = <<17, 26>>
    /\ candidate.strategy.stints[2].laps = 9

====
